---- MODULE Spec2Model ----
(***************************************************************************)
(* backLinker: the backlink-suggestion pipeline.                           *)
(*                                                                         *)
(* Part 1 models the suggestions table and the three writers that share    *)
(* it: saveSuggestions (upsert after an analysis), processLinkChecks (the  *)
(* deferred link-check pass, one step per await) and the PATCH route       *)
(* (review status).                                                        *)
(*                                                                         *)
(* A URL string is modelled by the parts the code's string operations      *)
(* look at: scheme, "www." prefix, path segments, trailing slash and       *)
(* query/fragment.  Scheme "rel" is a relative reference (the URL          *)
(* constructor rejects it unless a base is given), scheme "bad" a string   *)
(* it rejects even with a base.                                            *)
(***************************************************************************)
EXTENDS Integers, Sequences, FiniteSets, TLC

VARIABLES
    suggestions,   \* the suggestions table: id -> row
    nextId,        \* the next value of the table's id sequence
    lc,            \* each processLinkChecks call: where it is, what it selected
    last,          \* what the last finished operation on the table did
    sentences,     \* the sentences table, in the order its rows are read
    run,           \* what the last analyzeUrl call returned
    pop,           \* each populateSentences call: where it is, what it inserts
    reindexed,     \* what the last populateSentences call that returned was given
    pages,         \* the pages table, in the order its rows were created
    cron,          \* the cron route: where its run is, its queues, its counters
    kwCalls,       \* how often extractKeywordsExpanded was called for each page
    norm           \* the latest two URLs given to normalizeUrl and what it returned

sugVars == <<suggestions, nextId, lc, last>>
idxVars == <<sentences, run, pop, reindexed>>
cronVars == <<pages, cron, kwCalls>>
urlVars == <<norm>>
vars == <<suggestions, nextId, lc, last, sentences, run, pop, reindexed, pages, cron, kwCalls, norm>>

(* ------------------------------------------------------------------ *)
(* Bounds                                                             *)
(* ------------------------------------------------------------------ *)

\* Largest id the suggestions sequence hands out.
MaxId == 2

\* Longest batch handed to saveSuggestions.
MaxBatch == 2

\* Largest batchSize a caller passes to processLinkChecks.
MaxBatchSize == 2

(* ------------------------------------------------------------------ *)
(* URLs                                                               *)
(* ------------------------------------------------------------------ *)

U(scheme, www, path, slash, query) ==
    [scheme |-> scheme, www |-> www, path |-> path, slash |-> slash, query |-> query]

\* parsed.origin + parsed.pathname: the query string and fragment are dropped.
OriginPath(u) == [u EXCEPT !.query = FALSE]

\* new URL(u) throws on a string without a scheme.
Parses(u) == u.scheme \in {"http", "https"}

\* new URL(href, base): an absolute href stands; a relative one takes the
\* base's origin and replaces the last segment of the base's path (or is
\* appended, when the base ends with a slash).
ResolvesWithBase(href) == href.scheme # "bad"

Resolve(href, base) ==
    IF Parses(href) THEN href
    ELSE [scheme |-> base.scheme,
          www |-> base.www,
          path |-> (IF base.slash THEN base.path
                    ELSE SubSeq(base.path, 1, Len(base.path) - 1)) \o href.path,
          slash |-> href.slash,
          query |-> href.query]

\* .replace(/^http:\/\//, 'https://')
HttpToHttps(u) == IF u.scheme = "http" THEN [u EXCEPT !.scheme = "https"] ELSE u

\* .replace(/^https:\/\/www\./, 'https://'): only after an https:// prefix.
StripWww(u) == IF u.scheme = "https" THEN [u EXCEPT !.www = FALSE] ELSE u

\* .replace(/\/$/, '')
StripSlash(u) == [u EXCEPT !.slash = FALSE]

\* A plausible slip: the URLs are compared as written.
NormalizeUrlRaw(u) == u

\* .replace(/[?#].*$/, '') of the catch branch.
DropQuery(u) == [u EXCEPT !.query = FALSE]

\* A chain that strips the www. before it rewrites the scheme.
normalizeUrlWwwFirst(u) ==
    IF Parses(u)
    THEN StripSlash(HttpToHttps(StripWww(OriginPath(u))))
    ELSE StripSlash(HttpToHttps(StripWww(DropQuery(u))))

\* The try branch for a string the URL constructor parses, the catch branch
\* for any other.
normalizeUrl(u) ==
    IF Parses(u)
    THEN StripSlash(StripWww(HttpToHttps(OriginPath(u))))
    ELSE StripSlash(StripWww(HttpToHttps(DropQuery(u))))

\* The strings normalizeUrl is given: with scheme http or https, or without
\* a scheme; with or without www., a path, a trailing slash, a query string
\* or fragment.
Spellings ==
    { U(scheme, www, path, slash, query) :
        scheme \in {"http", "https", "rel"}, www \in BOOLEAN,
        path \in {<<>>, <<"t1">>, <<"blog", "t1">>}, slash \in BOOLEAN, query \in BOOLEAN }

NoNorm == [asked |-> FALSE, a |-> U("https", FALSE, <<>>, FALSE, FALSE),
           b |-> U("https", FALSE, <<>>, FALSE, FALSE),
           na |-> U("https", FALSE, <<>>, FALSE, FALSE),
           nb |-> U("https", FALSE, <<>>, FALSE, FALSE)]

\* The target pages, as their URLs are written in the pages table.
T1 == U("https", TRUE, <<"t1">>, TRUE, FALSE)
T2 == U("https", FALSE, <<"t2">>, FALSE, FALSE)
TargetUrls == {T1, T2}

\* The source pages.
S1 == U("https", FALSE, <<"s1">>, FALSE, FALSE)
S2 == U("https", FALSE, <<"s2">>, TRUE, FALSE)
SourceUrls == {S1, S2}

\* hrefs a fetched source page may carry: T1 in another spelling, T2 as a
\* relative reference and one the URL constructor rejects.
RawHrefs == { U("http", FALSE, <<"t1">>, FALSE, TRUE),
              U("rel", FALSE, <<"t2">>, TRUE, FALSE),
              U("bad", FALSE, <<"t1">>, FALSE, FALSE) }

\* What a fetch of a page yields: a failure (timeout, network error, non-2xx)
\* or the hrefs of its HTML.
FetchFailed == [ok |-> FALSE, hrefs |-> {}]
FetchOutcomes == {FetchFailed} \cup { [ok |-> TRUE, hrefs |-> h] : h \in SUBSET RawHrefs }

(* ------------------------------------------------------------------ *)
(* The suggestions table                                              *)
(* ------------------------------------------------------------------ *)

VALID_STATUSES == {"pending", "accepted", "dismissed"}

\* What the oracle (or the keyword matcher) returns for one source: the
\* content fields of a suggestion, in one of two wordings.
Variants == 1 .. 2

Item(s, v) ==
    [sourceUrl |-> s,
     sourceTitle |-> <<"title of">> \o s.path,
     suggestedAnchorText |-> <<"anchor", v>>,
     anchorSource |-> IF v = 1 THEN "title" ELSE "variation",
     context |-> <<"sentence", v>>,
     reason |-> <<"reason", v>>]

Items == { Item(s, v) : s \in SourceUrls, v \in Variants }

RECURSIVE SeqsUpTo(_, _)
SeqsUpTo(S, n) ==
    IF n = 0 THEN {<<>>}
    ELSE LET shorter == SeqsUpTo(S, n - 1)
         IN  shorter \cup { Append(q, x) : q \in { r \in shorter : Len(r) = n - 1 }, x \in S }

Batches == SeqsUpTo(Items, MaxBatch)

\* The title the target page carries when it is analysed.
Titles == {"title A"}

\* What the last finished operation did, as its caller or its log shows it:
\* the operation, the row it addressed, the rows an upsert found stored, and
\* the outcome.
Did(op, id, ids, result) == [op |-> op, id |-> id, ids |-> ids, result |-> result]

\* The row, if any, that holds the pair (target_url, source_url).
RowOf(store, t, s) ==
    { id \in DOMAIN store : store[id].target_url = t /\ store[id].source_url = s }

(* ------------------------------------------------------------------ *)
(* saveSuggestions                                                    *)
(* ------------------------------------------------------------------ *)

\* suggestions.filter(...) with seenSources: the first entry of each
\* sourceUrl is kept, in order.
RECURSIVE DedupFrom(_, _)
DedupFrom(batch, seenSources) ==
    IF batch = <<>> THEN <<>>
    ELSE IF Head(batch).sourceUrl \in seenSources
         THEN DedupFrom(Tail(batch), seenSources)
         ELSE <<Head(batch)>> \o
              DedupFrom(Tail(batch), seenSources \cup {Head(batch).sourceUrl})

\* A plausible slip: the batch is written as given.
DedupKeepAll(batch) == batch

DedupBySource(batch) == DedupFrom(batch, {})

\* unique.map(...): the columns the upsert supplies.
UpsertRow(targetUrl, targetTitle, s) ==
    [target_url |-> targetUrl,
     target_title |-> targetTitle,
     source_url |-> s.sourceUrl,
     source_title |-> s.sourceTitle,
     suggested_anchor_text |-> s.suggestedAnchorText,
     anchor_source |-> s.anchorSource,
     context |-> s.context,
     reason |-> s.reason,
     status |-> "pending"]

UpsertRows(targetUrl, targetTitle, unique) ==
    [i \in 1 .. Len(unique) |-> UpsertRow(targetUrl, targetTitle, unique[i])]

\* The columns a row of the table has beyond the supplied ones.
ContentFields ==
    {"target_title", "source_title", "suggested_anchor_text", "anchor_source",
     "context", "reason"}

\* A table whose link_checked column defaults to true.
InsertRowChecked(store, id, r) ==
    [k \in DOMAIN store \cup {id} |->
        IF k = id
        THEN [target_url |-> r.target_url,
              target_title |-> r.target_title,
              source_url |-> r.source_url,
              source_title |-> r.source_title,
              suggested_anchor_text |-> r.suggested_anchor_text,
              anchor_source |-> r.anchor_source,
              context |-> r.context,
              reason |-> r.reason,
              status |-> r.status,
              link_checked |-> TRUE]
        ELSE store[k]]

\* INSERT of a row whose pair is not in the table: the sequence gives the id
\* and link_checked takes its default (false).
InsertRow(store, id, r) ==
    [k \in DOMAIN store \cup {id} |->
        IF k = id
        THEN [target_url |-> r.target_url,
              target_title |-> r.target_title,
              source_url |-> r.source_url,
              source_title |-> r.source_title,
              suggested_anchor_text |-> r.suggested_anchor_text,
              anchor_source |-> r.anchor_source,
              context |-> r.context,
              reason |-> r.reason,
              status |-> r.status,
              link_checked |-> FALSE]
        ELSE store[k]]

\* A conflict handler that also resets the verification flag.
ConflictUpdateResetsCheck(old, r) ==
    [old EXCEPT !.target_title = r.target_title,
                !.source_title = r.source_title,
                !.suggested_anchor_text = r.suggested_anchor_text,
                !.anchor_source = r.anchor_source,
                !.context = r.context,
                !.reason = r.reason,
                !.status = r.status,
                !.link_checked = FALSE]

\* ON CONFLICT (target_url, source_url) DO UPDATE SET <every supplied
\* column>: status is among the supplied columns, link_checked is not.
ConflictUpdate(old, r) ==
    [old EXCEPT !.target_title = r.target_title,
                !.source_title = r.source_title,
                !.suggested_anchor_text = r.suggested_anchor_text,
                !.anchor_source = r.anchor_source,
                !.context = r.context,
                !.reason = r.reason,
                !.status = r.status]

\* A table without the unique constraint: every row of the batch is inserted.
UpsertOneNoConstraint(st, r) ==
    [store |-> InsertRow(st.store, st.next, r), next |-> st.next + 1]

\* The unique constraint makes a second INSERT of a stored pair a conflict.
UpsertOne(st, r) ==
    LET hit == RowOf(st.store, r.target_url, r.source_url)
    IN  IF hit # {}
        THEN LET id == CHOOSE k \in hit : TRUE
             IN  [st EXCEPT !.store = [st.store EXCEPT ![id] = ConflictUpdate(st.store[id], r)]]
        ELSE [store |-> InsertRow(st.store, st.next, r), next |-> st.next + 1]

RECURSIVE UpsertAll(_, _)
UpsertAll(st, rows) ==
    IF rows = <<>> THEN st
    ELSE UpsertAll(UpsertOne(st, Head(rows)), Tail(rows))

\* Postgres rejects a batch that names one (target_url, source_url) twice.
BatchCollides(rows) ==
    \E i, j \in 1 .. Len(rows) :
        i < j /\ rows[i].target_url = rows[j].target_url
              /\ rows[i].source_url = rows[j].source_url

\* The ids a batch would draw from the sequence.
NewPairs(store, rows) ==
    { <<rows[i].target_url, rows[i].source_url>> :
        i \in { j \in 1 .. Len(rows) : RowOf(store, rows[j].target_url, rows[j].source_url) = {} } }

\* The stored rows a batch hits.
Conflicts(store, rows) ==
    UNION { RowOf(store, rows[i].target_url, rows[i].source_url) : i \in 1 .. Len(rows) }

\* saveSuggestions(targetUrl, targetTitle, suggestions); storeUp is whether
\* the store accepts the write (an error is logged, nothing is thrown).
saveSuggestions(targetUrl, targetTitle, batch, storeUp) ==
    LET unique == DedupBySource(batch)
        rows == UpsertRows(targetUrl, targetTitle, unique)
    IN  /\ nextId + Cardinality(NewPairs(suggestions, rows)) <= MaxId + 1
        /\ IF batch = <<>>
           THEN /\ UNCHANGED <<suggestions, nextId>>
                /\ last' = Did("save", 0, {}, "empty")
           ELSE IF ~storeUp \/ BatchCollides(rows)
           THEN /\ UNCHANGED <<suggestions, nextId>>
                /\ last' = Did("save", 0, {}, "rejected")
           ELSE LET st == UpsertAll([store |-> suggestions, next |-> nextId], rows)
                IN  /\ suggestions' = st.store
                    /\ nextId' = st.next
                    /\ last' = Did("save", 0, Conflicts(suggestions, rows), "saved")
        /\ UNCHANGED <<lc, idxVars, cronVars, urlVars>>

\* A rejected write leaves the same state whatever the batch was, so the
\* one-item batches stand for all of them there.
SaveSuggestions ==
    \E t \in TargetUrls, title \in Titles, storeUp \in BOOLEAN :
        \E batch \in IF storeUp THEN Batches ELSE { b \in Batches : Len(b) = 1 } :
            saveSuggestions(t, title, batch, storeUp)

(* ------------------------------------------------------------------ *)
(* processLinkChecks                                                  *)
(* ------------------------------------------------------------------ *)

\* The calls of processLinkChecks that can be in flight at once: the cron
\* route runs one after its analyses, and a second cron request can arrive
\* while the first is still in its loop.
Passes == {1, 2}

\* The one pass of a cron route that runs alone.
PassIds == {1}

\* fetchSourceHrefs: the Set of normalised hrefs of a fetched page; an href
\* the URL constructor rejects contributes nothing.
fetchSourceHrefs(sourceUrl, hrefs) ==
    { normalizeUrl(OriginPath(Resolve(h, sourceUrl))) :
        h \in { g \in hrefs : ResolvesWithBase(g) } }

\* A selection with the flag inverted: .eq('link_checked', true).
UncheckedInverted(store) ==
    { id \in DOMAIN store : store[id].status = "pending" /\ store[id].link_checked }

\* The rows .eq('status','pending').eq('link_checked', false) keeps.
Unchecked(store) ==
    { id \in DOMAIN store : store[id].status = "pending" /\ ~store[id].link_checked }

\* .order('created_at', descending): the newest rows first.
RECURSIVE Descending(_)
Descending(S) ==
    IF S = {} THEN <<>>
    ELSE LET m == CHOOSE x \in S : \A y \in S : x >= y
         IN  <<m>> \o Descending(S \ {m})

\* .order('created_at', ascending): ids are handed out in creation order.
RECURSIVE Ascending(_)
Ascending(S) ==
    IF S = {} THEN <<>>
    ELSE LET m == CHOOSE x \in S : \A y \in S : x <= y
         IN  <<m>> \o Ascending(S \ {m})

FirstN(q, n) == SubSeq(q, 1, IF Len(q) < n THEN Len(q) ELSE n)

\* The selection query: id, source_url, target_url of the oldest batchSize
\* unchecked pending rows.
SelectPending(store, batchSize) ==
    LET ids == FirstN(Ascending(Unchecked(store)), batchSize)
    IN  [i \in 1 .. Len(ids) |->
            [id |-> ids[i],
             source_url |-> store[ids[i]].source_url,
             target_url |-> store[ids[i]].target_url]]

\* .delete().eq('id', id)
DeleteById(store, id) == [k \in DOMAIN store \ {id} |-> store[k]]

\* An update without its .eq('id', id): every row is marked.
MarkAllChecked(store, id) ==
    [k \in DOMAIN store |-> [store[k] EXCEPT !.link_checked = TRUE]]

\* .update({ link_checked: true }).eq('id', id): no row, no effect.
MarkChecked(store, id) ==
    IF id \in DOMAIN store THEN [store EXCEPT ![id].link_checked = TRUE] ELSE store

\* A pass that deletes the rows whose source does not link to the target.
CheckedRowInverted(store, id, outcome, linked) ==
    IF ~outcome.ok THEN MarkChecked(store, id)
    ELSE IF linked THEN MarkChecked(store, id)
    ELSE DeleteById(store, id)

\* A pass that keeps every row it examines.
CheckedRowKeepAlways(store, id, outcome, linked) == MarkChecked(store, id)

\* A pass that leaves a row whose source could not be fetched for a retry.
CheckedRowRetryOnFail(store, id, outcome, linked) ==
    IF ~outcome.ok THEN store
    ELSE IF linked THEN DeleteById(store, id)
    ELSE MarkChecked(store, id)

\* The body of the for loop: the try branch deletes or marks, the catch
\* branch marks.
CheckedRow(store, id, outcome, linked) ==
    IF ~outcome.ok THEN MarkChecked(store, id)
    ELSE IF linked THEN DeleteById(store, id)
    ELSE MarkChecked(store, id)

IdlePass == [pc |-> "idle", pending |-> <<>>, processed |-> 0, filtered |-> 0]

\* The selection query of a pass; an empty selection returns at once.
LcSelect(p, batchSize) ==
    /\ lc[p].pc = "idle"
    /\ LET pending == SelectPending(suggestions, batchSize)
       IN  IF pending = <<>>
           THEN UNCHANGED lc
           ELSE lc' = [lc EXCEPT ![p] = [pc |-> "loop", pending |-> pending,
                                         processed |-> Len(pending), filtered |-> 0]]
    /\ UNCHANGED <<suggestions, nextId, last, idxVars>>

\* Whether the fetched source links to the target of the selected row.
Linked(s, outcome) ==
    /\ outcome.ok
    /\ normalizeUrl(s.target_url) \in fetchSourceHrefs(s.source_url, outcome.hrefs)

\* One iteration of the loop: fetch the source, then delete or mark by id.
LcRow(p, outcome) ==
    /\ lc[p].pc = "loop"
    /\ lc[p].pending # <<>>
    /\ LET s == Head(lc[p].pending)
           linked == Linked(s, outcome)
       IN  /\ suggestions' = CheckedRow(suggestions, s.id, outcome, linked)
           /\ lc' = [lc EXCEPT ![p].pending = Tail(@),
                               ![p].filtered = IF linked THEN @ + 1 ELSE @]
           /\ last' = Did("check", s.id, {},
                           IF ~outcome.ok THEN "failed"
                           ELSE IF linked THEN "linked" ELSE "clean")
    /\ UNCHANGED <<nextId, idxVars>>

\* return { processed, filtered }
LcReturn(p) ==
    /\ lc[p].pc = "loop"
    /\ lc[p].pending = <<>>
    /\ lc' = [lc EXCEPT ![p] = IdlePass]
    /\ UNCHANGED <<suggestions, nextId, last, idxVars>>

processLinkChecks(p) ==
    /\ \/ \E batchSize \in 1 .. MaxBatchSize : LcSelect(p, batchSize)
       \/ \E outcome \in FetchOutcomes : LcRow(p, outcome)
       \/ LcReturn(p)
    /\ UNCHANGED <<cronVars, urlVars>>

(* ------------------------------------------------------------------ *)
(* PATCH /api/suggestions/[id]                                        *)
(* ------------------------------------------------------------------ *)

\* .update({ status }).eq('id', id): no row, no effect.
SetStatus(store, id, status) ==
    IF id \in DOMAIN store THEN [store EXCEPT ![id].status = status] ELSE store

\* A handler that writes whatever status it is given.
PatchUnvalidated(id, status) ==
    /\ suggestions' = SetStatus(suggestions, id, status)
    /\ last' = Did("patch", id, {}, "ok")
    /\ UNCHANGED <<nextId, lc, idxVars, cronVars, urlVars>>

\* A status outside VALID_STATUSES is answered 400 and nothing is written.
PATCH(id, status) ==
    /\ IF status \notin VALID_STATUSES
       THEN /\ UNCHANGED suggestions
            /\ last' = Did("patch", id, {}, "400")
       ELSE /\ suggestions' = SetStatus(suggestions, id, status)
            /\ last' = Did("patch", id, {}, "ok")
    /\ UNCHANGED <<nextId, lc, idxVars, cronVars, urlVars>>

Patch == \E id \in 1 .. MaxId, status \in VALID_STATUSES \cup {"archived"} : PATCH(id, status)

\* `run` holds what the latest analysis of the index as it stands returned;
\* a write to the index discards it.  No analysis has returned yet:
NoRun ==
    [pipeline |-> "none", url |-> T1, keywords |-> <<>>,
     candidates |-> <<>>, suggestions |-> <<>>, outcome |-> "none"]

(* ------------------------------------------------------------------ *)
(* The sentences table                                                *)
(* ------------------------------------------------------------------ *)

\* The page of target T1 as the index holds it, a source page, and a
\* category page.
TA == U("https", FALSE, <<"t1">>, FALSE, FALSE)
CategoryPage == U("https", FALSE, <<"category", "news">>, TRUE, FALSE)
IndexedPages == {TA, S1, CategoryPage}

\* The pages the cron route scrapes and hands to populateSentences.
PopulatedPages == {S1, CategoryPage}

\* The URLs an analysis is asked for: T1 as the sitemap (or the caller of
\* POST /api/analyze) spells it, and the spelling the index holds.
AnalysisUrls == {T1, TA}

\* SKIP_PATTERNS of the form '/name/' and of the form '/name'.
SkipDirs == {"category", "author", "tag", "blog", "page", "contributors"}
SkipPrefixes ==
    {"sitemap", "privacy-policy", "terms-and-conditions", "newsletter-sign-up",
     "lipedema-quiz", "homeold", "advertise-with-us", "lipedema-photos",
     "lipedema-before-and-after"}

\* url.includes(p) for some pattern p: a '/name/' pattern needs a slash
\* after the segment, a '/name' pattern does not.
MatchesSkipPattern(url) ==
    \E i \in 1 .. Len(url.path) :
        \/ url.path[i] \in SkipDirs /\ (i < Len(url.path) \/ url.slash)
        \/ url.path[i] \in SkipPrefixes

\* A filter that lets every page through.
isContentPageAny(url) == TRUE

isContentPage(url) == ~MatchesSkipPattern(url)

\* The keyphrases of the target, and the fragments of text pages are made
\* of: `has` is the set of keyphrases that occur in the text whatever the
\* case, `chars` and `words` its length, and `marked` whether it holds a
\* '|', 'skip to content', the site's name or mostly capitalised words.
K1 == "weight loss with lipedema"
K2 == "lipedema diet"
KeywordLists == { <<K2>>, <<K2, K1>> }

FragA ==
    [text |-> "Many patients ask their doctors about weight loss with lipedema and which management options really work.",
     has |-> {K1}, chars |-> 105, words |-> 16, marked |-> FALSE]
FragB ==
    [text |-> "A lipedema diet does not replace weight loss with lipedema surgery, as many patients learn after years of trying.",
     has |-> {K1, K2}, chars |-> 113, words |-> 19, marked |-> FALSE]
FragShort ==
    [text |-> "Lipedema diet tips.",
     has |-> {K2}, chars |-> 19, words |-> 3, marked |-> FALSE]
FragNav ==
    [text |-> "Home | Lipedema Diet | Weight Loss | Contact Us | About The Author | Newsletter Sign Up",
     has |-> {K2}, chars |-> 87, words |-> 18, marked |-> TRUE]

\* The contents pages are indexed with.
Contents ==
    { <<>>, <<FragShort>>, <<FragA>>, <<FragShort, FragB>>, <<FragA, FragB>>,
      <<FragNav, FragA>> }

\* The split and the filter of splitSentences.
splitSentences(content) ==
    LET Kept(f) == f.chars > 40 /\ f.words >= 7 IN SelectSeq(content, Kept)

\* The filter of scripts/buildSentences.js.
isUsableSentence(f) == f.words >= 15 /\ ~f.marked

\* A delete that removes nothing.
DeleteNothing(table, pageUrl) == table

\* .delete().eq('page_url', pageUrl)
DeletePage(table, pageUrl) ==
    LET Other(r) == r.page_url # pageUrl IN SelectSeq(table, Other)

PageTitle(pageUrl) == <<"title of">> \o pageUrl.path

\* The calls of populateSentences that can be in flight at once (two cron
\* requests), and the one of a cron route that runs alone.
Indexers == {1, 2}
IndexerIds == {1}

IdleIndexer == [pc |-> "idle", page_url |-> TA, page_title |-> <<>>, found |-> <<>>]

\* `reindexed` holds the arguments and the outcome of the latest call of
\* populateSentences that returned, until the index is written again.
NoReindex == [op |-> "none", page_url |-> TA, found |-> <<>>, result |-> "none"]

Returns(pageUrl, found, result) ==
    [op |-> "populate", page_url |-> pageUrl, found |-> found, result |-> result]

\* sentences.map(...): the rows of a call, existing_links at its default '{}'.
SentenceRows(pageUrl, pageTitle, found) ==
    [i \in 1 .. Len(found) |->
        [page_url |-> pageUrl, page_title |-> pageTitle,
         sentence |-> found[i], existing_links |-> {}]]

\* populateSentences up to its first await: it returns at once for an empty
\* content or one without a usable sentence; otherwise it deletes the rows
\* of the page (the result of the delete is not read).
PopDelete(p, pageUrl, pageTitle, content) ==
    LET found == splitSentences(content)
    IN  /\ pop[p].pc = "idle"
        /\ IF content = <<>> \/ found = <<>>
           THEN /\ reindexed' = Returns(pageUrl, found, "skipped")
                /\ UNCHANGED <<sentences, run, pop>>
           ELSE /\ sentences' = DeletePage(sentences, pageUrl)
                /\ pop' = [pop EXCEPT ![p] = [pc |-> "insert", page_url |-> pageUrl,
                                              page_title |-> pageTitle, found |-> found]]
                /\ run' = NoRun
                /\ reindexed' = NoReindex
        /\ UNCHANGED <<sugVars, cronVars, urlVars>>

\* .insert(rows): the store performs it or rejects it as a whole.
Inserted(table, rows, insertOk) == IF insertOk THEN table \o rows ELSE table

\* The insert of the call and its return; a rejected insert is logged.
PopInsert(p, insertOk) ==
    /\ pop[p].pc = "insert"
    /\ sentences' = Inserted(sentences,
                             SentenceRows(pop[p].page_url, pop[p].page_title, pop[p].found),
                             insertOk)
    /\ reindexed' = Returns(pop[p].page_url, pop[p].found,
                            IF insertOk THEN "inserted" ELSE "insert failed")
    /\ pop' = [pop EXCEPT ![p] = IdleIndexer]
    /\ run' = NoRun
    /\ UNCHANGED <<sugVars, cronVars, urlVars>>

populateSentences(p) ==
    \/ \E pageUrl \in PopulatedPages, content \in Contents :
          PopDelete(p, pageUrl, PageTitle(pageUrl), content)
    \/ \E insertOk \in BOOLEAN : PopInsert(p, insertOk)

PopulateSentences == \E p \in IndexerIds : populateSentences(p)

\* scripts/buildSentences.js: the table is cleared...
BuildSentencesClear ==
    /\ sentences # <<>>
    /\ sentences' = <<>>
    /\ run' = NoRun
    /\ reindexed' = NoReindex
    /\ UNCHANGED <<pop, sugVars, cronVars, urlVars>>

\* The links of a block: the hrefs of its <a> tags that normalise.
BlockLinks(pageUrl, hrefs) ==
    { normalizeUrl(Resolve(h, pageUrl)) : h \in { g \in hrefs : ResolvesWithBase(g) } }

\* extractSentences: the usable sentences of the blocks, each with the links
\* of the block it comes from (here a block holds one sentence).
extractSentences(pageUrl, content, hrefs) ==
    LET blocks == [i \in 1 .. Len(content) |->
                      [sentence |-> content[i],
                       existing_links |-> BlockLinks(pageUrl, hrefs[i])]]
        Usable(b) == isUsableSentence(b.sentence)
    IN  SelectSeq(blocks, Usable)

\* ... and each content page with a usable sentence gets its rows.  The
\* script visits a page once in a run: the rows of a page are inserted when
\* the table holds none of it.
BuildSentencesInsert(pageUrl, content, hrefs) ==
    LET found == extractSentences(pageUrl, content, hrefs)
    IN  /\ isContentPage(pageUrl)
        /\ \A i \in 1 .. Len(sentences) : sentences[i].page_url # pageUrl
        /\ found # <<>>
        /\ sentences' = sentences \o
              [i \in 1 .. Len(found) |->
                  [page_url |-> pageUrl, page_title |-> PageTitle(pageUrl),
                   sentence |-> found[i].sentence,
                   existing_links |-> found[i].existing_links]]
        /\ run' = NoRun
        /\ reindexed' = NoReindex
        /\ UNCHANGED <<pop, sugVars, cronVars, urlVars>>

\* The blocks of a page link to T1 (in another spelling) or to nothing.
BlockHrefs == { {}, {U("http", TRUE, <<"t1">>, TRUE, TRUE)} }

BuildSentences ==
    \/ BuildSentencesClear
    \/ \E pageUrl \in IndexedPages, content \in Contents :
          \E hrefs \in [1 .. Len(content) -> BlockHrefs] :
              BuildSentencesInsert(pageUrl, content, hrefs)

(* ------------------------------------------------------------------ *)
(* analyzeUrl                                                         *)
(* ------------------------------------------------------------------ *)

\* .limit(40) of lib/analyze.js and .limit(200) of the keyword-only version.
QueryLimit == 40
QueryLimitKeywordOnly == 200

\* candidates.slice(0, 15), and suggestions.length >= 30.
MaxCandidates == 15
MaxKeywordSuggestions == 30

\* sentence.ilike.%kw% for some keyword, .neq('page_url', url), .limit(n):
\* the rows come in the table's order.
MatchingSentences(table, keywords, url, limit) ==
    LET Hit(r) == /\ \E i \in 1 .. Len(keywords) : keywords[i] \in r.sentence.has
                  /\ r.page_url # url
    IN  FirstN(SelectSeq(table, Hit), limit)

\* The loop of lib/analyze.js: rows of non-content pages are skipped, and
\* so is a row whose sentence text was seen before.
RECURSIVE CandidatesFrom(_, _)
CandidatesFrom(rows, seen) ==
    IF rows = <<>> THEN <<>>
    ELSE LET s == Head(rows)
         IN  IF ~isContentPage(s.page_url) \/ s.sentence.text \in seen
             THEN CandidatesFrom(Tail(rows), seen)
             ELSE <<[sourceUrl |-> s.page_url, sourceTitle |-> s.page_title,
                     sentence |-> s.sentence]>> \o
                  CandidatesFrom(Tail(rows), seen \cup {s.sentence.text})

\* What the oracle answers to confirmSuggestions: `text` is the form of the
\* raw text and `entries` the candidates (by number) the entries of its
\* array are written from.  "array" is a JSON array, "fenced" a JSON array
\* with text around it, "object" a JSON object with no bracket in it,
\* "prose" text with no bracket in it, "broken" text whose first '[' to last
\* ']' is no JSON, "unavailable" a failed request.
OracleTexts == {"array", "fenced", "object", "prose", "broken", "unavailable"}

Response(text, entries) == [text |-> text, entries |-> entries]

\* The entry the oracle writes from a candidate.
Confirmed(c) ==
    [sourceUrl |-> c.sourceUrl, sourceTitle |-> c.sourceTitle,
     suggestedAnchorText |-> K1, anchorSource |-> "title",
     context |-> c.sentence.text, reason |-> "relevant"]

\* The entries of the oracle's array.
Entries(candidates, response) ==
    LET Known(i) == i \in 1 .. Len(candidates)
        picks == SelectSeq(response.entries, Known)
    IN  [i \in 1 .. Len(picks) |-> Confirmed(candidates[picks[i]])]

\* confirmSuggestions: JSON.parse(raw) is returned whatever it is; when it
\* throws, the text from the first '[' to the last ']' is parsed, and that
\* throws when there is none or it is no JSON.
confirmSuggestions(candidates, response) ==
    IF response.text \in {"array", "fenced"}
    THEN [outcome |-> "array", suggestions |-> Entries(candidates, response)]
    ELSE IF response.text = "object"
    THEN [outcome |-> "object", suggestions |-> <<>>]
    ELSE [outcome |-> "threw", suggestions |-> <<>>]

\* What analyzeUrl of lib/analyze.js returns (or that it threw) for the
\* keywords the keyword oracle gave and the answer of the second oracle.
OracleAnalysis(table, url, keywords, response) ==
    LET matching == MatchingSentences(table, keywords, url, QueryLimit)
        candidates == CandidatesFrom(matching, {})
        handed == FirstN(candidates, MaxCandidates)
        confirmed == confirmSuggestions(handed, response)
    IN  IF matching = <<>> \/ candidates = <<>>
        THEN [pipeline |-> "oracle", url |-> url, keywords |-> keywords,
              candidates |-> <<>>, suggestions |-> <<>>, outcome |-> "array"]
        ELSE [pipeline |-> "oracle", url |-> url, keywords |-> keywords,
              candidates |-> handed, suggestions |-> confirmed.suggestions,
              outcome |-> confirmed.outcome]

\* analyzeUrl of lib/analyze.js (keywords, query, candidates, oracle).
analyzeUrl(url, keywords, response) ==
    /\ run' = OracleAnalysis(sentences, url, keywords, response)
    /\ UNCHANGED <<sentences, pop, reindexed, sugVars, cronVars, urlVars>>

\* Character lengths of the keyphrases.
KwLen(k) == IF k = K1 THEN 25 ELSE 13

\* keywords.sort((a, b) => b.length - a.length): longest first, stable.
RECURSIVE LongestFirst(_)
LongestFirst(keywords) ==
    IF keywords = <<>> THEN <<>>
    ELSE LET i == CHOOSE j \in 1 .. Len(keywords) :
                    /\ \A k \in 1 .. Len(keywords) : KwLen(keywords[k]) <= KwLen(keywords[j])
                    /\ \A k \in 1 .. j - 1 : KwLen(keywords[k]) < KwLen(keywords[j])
         IN  <<keywords[i]>> \o
             LongestFirst(SubSeq(keywords, 1, i - 1) \o SubSeq(keywords, i + 1, Len(keywords)))

\* lowerKeywords.find(kw => lowerSentence.includes(kw)); <<>> when none.
AnchorText(lowerKeywords, sentence) ==
    LET In(k) == k \in sentence.has IN SelectSeq(lowerKeywords, In)

\* The loop of the keyword-only analyzeUrl: non-content pages, pages seen
\* before, fragments that already link to the target and fragments without
\* an anchor are skipped; the loop stops at the cap.
RECURSIVE KeywordSuggestionsFrom(_, _, _, _, _)
KeywordSuggestionsFrom(rows, seenSources, lowerKeywords, targetNormalized, n) ==
    IF rows = <<>> \/ n >= MaxKeywordSuggestions THEN <<>>
    ELSE LET s == Head(rows)
             anchor == AnchorText(lowerKeywords, s.sentence)
         IN  IF \/ ~isContentPage(s.page_url)
                \/ s.page_url \in seenSources
                \/ targetNormalized \in s.existing_links
                \/ anchor = <<>>
             THEN KeywordSuggestionsFrom(Tail(rows), seenSources, lowerKeywords,
                                         targetNormalized, n)
             ELSE <<[sourceUrl |-> s.page_url, sourceTitle |-> s.page_title,
                     suggestedAnchorText |-> Head(anchor), anchorSource |-> "keyword",
                     context |-> s.sentence.text,
                     reason |-> "Keyword match in existing sentence."]>> \o
                  KeywordSuggestionsFrom(Tail(rows), seenSources \cup {s.page_url},
                                         lowerKeywords, targetNormalized, n + 1)

\* What analyzeUrl of the keyword-only version of lib/analyze.js returns.
KeywordAnalysis(table, url, keywords) ==
    LET matching == MatchingSentences(table, keywords, url, QueryLimitKeywordOnly)
    IN  [pipeline |-> "keyword", url |-> url, keywords |-> keywords,
         candidates |-> <<>>,
         suggestions |-> KeywordSuggestionsFrom(matching, {}, LongestFirst(keywords),
                                                normalizeUrl(url), 0),
         outcome |-> "array"]

\* analyzeUrl of the keyword-only version of lib/analyze.js.
analyzeUrlKeywordOnly(url, keywords) ==
    /\ run' = KeywordAnalysis(sentences, url, keywords)
    /\ UNCHANGED <<sentences, pop, reindexed, sugVars, cronVars, urlVars>>

\* The most candidates the index of this model can yield: one for each
\* sentence text splitSentences keeps.
MaxRows == 3

\* The answers of the oracle over an index of MaxRows candidates: an array
\* of any of them, bare or fenced, or no array.
Responses ==
    { Response(text, Ascending(a)) : text \in {"array", "fenced"}, a \in SUBSET (1 .. MaxRows) }
    \cup { Response(text, <<>>) : text \in OracleTexts \ {"array", "fenced"} }

AnalyzeUrl ==
    \E url \in AnalysisUrls, keywords \in KeywordLists :
        \/ \E response \in Responses : analyzeUrl(url, keywords, response)
        \/ analyzeUrlKeywordOnly(url, keywords)

(* ------------------------------------------------------------------ *)
(* A large index                                                      *)
(* ------------------------------------------------------------------ *)

\* Row i of an index whose pages hold perPage matching sentences each.
BigRow(i, perPage) ==
    [page_url |-> U("https", FALSE, <<"post-" \o ToString((i - 1) \div perPage + 1)>>,
                    FALSE, FALSE),
     page_title |-> <<"title of post", (i - 1) \div perPage + 1>>,
     sentence |-> [text |-> "Sentence " \o ToString(i)
                            \o " of a post that is about weight loss with lipedema and other topics.",
                   has |-> {K1}, chars |-> 80, words |-> 16, marked |-> FALSE],
     existing_links |-> {}]

BigTable(n, perPage) == [i \in 1 .. n |-> BigRow(i, perPage)]

\* Sizes around the caps and the limits of the two versions.
TableSizes ==
    {0, MaxCandidates - 1, MaxCandidates, MaxCandidates + 1, MaxKeywordSuggestions + 1,
     QueryLimit + 1, QueryLimitKeywordOnly + 1}

\* The answers of the oracle over a large index: nothing, every candidate
\* once, every candidate twice, or no array.
OnceEach == [i \in 1 .. MaxCandidates |-> i]

BigResponses ==
    { Response("array", <<>>), Response("array", OnceEach),
      Response("fenced", OnceEach \o OnceEach), Response("object", <<>>),
      Response("prose", <<>>) }

AnalyzeBig ==
    \E url \in AnalysisUrls, keywords \in KeywordLists :
        \/ \E response \in BigResponses : analyzeUrl(url, keywords, response)
        \/ analyzeUrlKeywordOnly(url, keywords)

(* ------------------------------------------------------------------ *)
(* GET /api/cron                                                      *)
(* ------------------------------------------------------------------ *)

MAX_INDEXING_PER_RUN == 2
MAX_ANALYSIS_PER_RUN == 10
UnanalyzedLimit == 100
LinkCheckBatch == 3

\* The cron requests a behaviour holds.
MaxRuns == 2

\* The calls of extractKeywordsExpanded that are counted for a page.
MaxKwCalls == 2

\* The sitemap, and the set of its URLs.
Sitemap == <<TA, S1, CategoryPage>>
SiteUrls == {TA, S1, CategoryPage}

\* What scrapePage returns: it throws on a response that is not ok.
ScrapeFailed == [ok |-> FALSE, content |-> <<>>]
ScrapeOutcomes == {ScrapeFailed, [ok |-> TRUE, content |-> <<FragA, FragB>>]}

\* What generatePageMetadata returns: the decoded object, whose keywords may
\* be empty, or it throws.
MetaFailed == [ok |-> FALSE, keywords |-> <<>>]
MetaOutcomes == {MetaFailed} \cup { [ok |-> TRUE, keywords |-> k] : k \in {<<>>, <<K2, K1>>} }

\* What extractKeywordsExpanded returns: the keyphrases, or it throws.
KeywordsFailed == [ok |-> FALSE, keywords |-> <<>>]
KeywordOutcomes == {KeywordsFailed, [ok |-> TRUE, keywords |-> <<K2, K1>>]}

\* The answers of the second oracle in a cron run.
CronResponses ==
    { Response("array", <<1, 2>>), Response("object", <<>>), Response("prose", <<>>),
      Response("broken", <<>>) }

\* A row of the pages table; a summary is written whenever keywords are.
PageRow(url, content, keywords) ==
    [url |-> url, title |-> PageTitle(url), has_content |-> TRUE, content |-> content,
     keywords |-> keywords, analyzed |-> FALSE]

\* A row that was created without content.
BareRow(url) == [PageRow(url, <<>>, <<>>) EXCEPT !.has_content = FALSE]

PageAt(table, url) == { i \in 1 .. Len(table) : table[i].url = url }

\* .upsert({ url, title, summary, keywords, content }, { onConflict: 'url' })
UpsertPage(table, url, content, keywords) ==
    IF PageAt(table, url) = {}
    THEN Append(table, PageRow(url, content, keywords))
    ELSE [i \in 1 .. Len(table) |->
            IF table[i].url = url
            THEN [table[i] EXCEPT !.has_content = TRUE, !.content = content,
                                  !.keywords = keywords]
            ELSE table[i]]

\* .update(update).eq('url', url) of the backfill loop.
BackfillPage(table, url, content, needsMeta, keywords) ==
    [i \in 1 .. Len(table) |->
        IF table[i].url = url
        THEN [table[i] EXCEPT !.has_content = TRUE, !.content = content,
                              !.keywords = IF needsMeta THEN keywords ELSE @]
        ELSE table[i]]

\* .update({ keywords }).eq('url', url) of the keyword-only analyzeUrl.
CacheKeywords(table, url, keywords) ==
    [i \in 1 .. Len(table) |->
        IF table[i].url = url THEN [table[i] EXCEPT !.keywords = keywords] ELSE table[i]]

\* .update({ analyzed_at }).eq('url', page.url)
MarkAnalyzed(table, url) ==
    [i \in 1 .. Len(table) |->
        IF table[i].url = url THEN [table[i] EXCEPT !.analyzed = TRUE] ELSE table[i]]

\* populateSentences as one call of the cron route.
Populated(table, pageUrl, pageTitle, content, insertOk) ==
    LET found == splitSentences(content)
    IN  IF content = <<>> \/ found = <<>> THEN table
        ELSE Inserted(DeletePage(table, pageUrl), SentenceRows(pageUrl, pageTitle, found),
                      insertOk)

\* Whether the insert of populateSentences was tried and rejected.
InsertRejected(content, insertOk) == splitSentences(content) # <<>> /\ ~insertOk

\* saveSuggestions as one call of the cron route: the table and the id
\* sequence after it, and whether the upsert was tried and rejected.  What
\* the oracle returned is written as it is; an object has no length.
Saved(store, next, targetUrl, targetTitle, batch, saveOk) ==
    LET rows == UpsertRows(targetUrl, targetTitle, DedupBySource(batch))
    IN  IF batch = <<>>
        THEN [store |-> store, next |-> next, rejected |-> FALSE]
        ELSE IF ~saveOk \/ BatchCollides(rows)
        THEN [store |-> store, next |-> next, rejected |-> TRUE]
        ELSE [store |-> UpsertAll([store |-> store, next |-> next], rows).store,
              next |-> UpsertAll([store |-> store, next |-> next], rows).next,
              rejected |-> FALSE]

\* Row k of the rows of category pages a pages table holds beside its
\* content pages: they have content and are never analysed.
ArchiveRow(k) ==
    PageRow(U("https", FALSE, <<"category", ToString(k)>>, TRUE, FALSE), <<FragShort>>, <<>>)

\* A pages table whose oldest row is the content page TA, followed by n
\* newer rows of category pages.
OldPageThen(n) == <<PageRow(TA, <<FragA, FragB>>, <<K2, K1>>)>> \o [k \in 1 .. n |-> ArchiveRow(k)]

\* A pages table whose oldest row is the analysed content page TA, followed
\* by n rows of category pages that were created without content.
DonePageThen(n) ==
    <<[PageRow(TA, <<FragA, FragB>>, <<K2, K1>>) EXCEPT !.analyzed = TRUE]>>
        \o [k \in 1 .. n |-> BareRow(ArchiveRow(k).url)]

\* Content page k of the pages a table holds beside those of the sitemap,
\* with content and keywords and without analyzed_at.
PostUrl(k) == U("https", FALSE, <<"post", ToString(k)>>, TRUE, FALSE)
PostRow(k) == PageRow(PostUrl(k), <<FragA, FragB>>, <<K2, K1>>)

\* A pages table of bare rows of category pages followed by posts.
WaitingPages(bare, posts) ==
    [k \in 1 .. bare |-> BareRow(ArchiveRow(k).url)] \o [k \in 1 .. posts |-> PostRow(k)]

\* A suggestions table of pending, unchecked rows: one for each of the
\* first two posts and each source.
PendingRow(t, src) ==
    InsertRow(<<>>, 1,
              UpsertRow(t, PageTitle(t),
                        [sourceUrl |-> src, sourceTitle |-> PageTitle(src),
                         suggestedAnchorText |-> K1, anchorSource |-> "title",
                         context |-> FragA, reason |-> "relevant"]))[1]
PendingRows ==
    <<PendingRow(PostUrl(1), S1), PendingRow(PostUrl(1), S2),
      PendingRow(PostUrl(2), S1), PendingRow(PostUrl(2), S2)>>

NoStats == [newInserted |-> 0, backfilled |-> 0, analyzed |-> 0, errors |-> 0]

\* `step` holds what the latest iteration of one of the three loops did:
\* the first failure in it ("none" if there was none), the text of the
\* second oracle's answer if it was asked, how the iteration was counted,
\* the suggestions the analysis returned and the rows of the target the
\* table holds after it.
NoStep ==
    [loop |-> "none", url |-> TA, failure |-> "none", reply |-> "none",
     counted |-> "none", returned |-> 0, stored |-> 0, marked |-> FALSE]

\* `failed` counts the iterations of this run in which a fetch, an oracle
\* or a store failed; `response` is what the latest run answered.
IdleCron(version) ==
    [pc |-> "idle", version |-> version, runs |-> 0,
     newUrls |-> <<>>, backfill |-> <<>>, toAnalyze |-> <<>>,
     stats |-> NoStats, failed |-> 0, step |-> NoStep, response |-> "none"]

\* The loops run in order; an empty queue is passed over.
Settle(c) ==
    LET c1 == IF c.pc = "index" /\ c.newUrls = <<>> THEN [c EXCEPT !.pc = "backfill"] ELSE c
        c2 == IF c1.pc = "backfill" /\ c1.backfill = <<>> THEN [c1 EXCEPT !.pc = "query"] ELSE c1
    IN  IF c2.pc = "analyze" /\ c2.toAnalyze = <<>> THEN [c2 EXCEPT !.pc = "linkcheck"] ELSE c2

\* What an iteration leaves in the counters.
Counted(c, loop, url, failure, reply, counted, returned, stored, marked) ==
    [c EXCEPT !.stats.newInserted = IF counted = "inserted" THEN @ + 1 ELSE @,
              !.stats.backfilled = IF counted = "backfilled" THEN @ + 1 ELSE @,
              !.stats.analyzed = IF counted = "analyzed" THEN @ + 1 ELSE @,
              !.stats.errors = IF counted = "error" THEN @ + 1 ELSE @,
              !.failed = IF failure # "none" THEN @ + 1 ELSE @,
              !.step = [loop |-> loop, url |-> url, failure |-> failure, reply |-> reply,
                        counted |-> counted, returned |-> returned, stored |-> stored,
                        marked |-> marked]]

NullContentUrls(table) ==
    LET Bare(r) == ~r.has_content \/ r.content = <<>>
        bare == SelectSeq(table, Bare)
    IN  FirstN([i \in 1 .. Len(bare) |-> bare[i].url], MAX_INDEXING_PER_RUN)

\* New URLs with a budget of their own.
NewUrlsOwnBudget(table, slots) ==
    LET New(u) == PageAt(table, u) = {} /\ isContentPage(u)
    IN  FirstN(SelectSeq(Sitemap, New), MAX_INDEXING_PER_RUN)

NewUrls(table, slots) ==
    LET New(u) == PageAt(table, u) = {} /\ isContentPage(u)
    IN  FirstN(SelectSeq(Sitemap, New), slots)

\* Steps 1 to 3: the sitemap and the pages are read (a failure of either is
\* fatal to the run) and the two queues are made.
Started(c, table, sitemapOk, selectOk) ==
    IF ~sitemapOk \/ ~selectOk
    THEN [c EXCEPT !.stats = NoStats, !.failed = 0, !.step = NoStep, !.response = "fatal"]
    ELSE LET backfill == NullContentUrls(table)
         IN  Settle([c EXCEPT !.pc = "index", !.stats = NoStats, !.failed = 0,
                              !.step = NoStep, !.response = "none",
                              !.backfill = backfill,
                              !.newUrls = NewUrls(table, MAX_INDEXING_PER_RUN - Len(backfill)),
                              !.toAnalyze = <<>>])

\* A request to the route, while the behaviour has requests left.
CronStart(sitemapOk, selectOk) ==
    /\ cron.pc = "idle"
    /\ cron.runs < MaxRuns
    /\ cron' = [Started(cron, pages, sitemapOk, selectOk) EXCEPT !.runs = cron.runs + 1]
    /\ UNCHANGED <<pages, kwCalls, sugVars, idxVars, urlVars>>

\* A request to the route of a schedule that never ends: the requests are
\* not counted.
CronRestart(sitemapOk, selectOk) ==
    /\ cron.pc = "idle"
    /\ cron' = Started(cron, pages, sitemapOk, selectOk)
    /\ UNCHANGED <<pages, kwCalls, sugVars, idxVars, urlVars>>

\* Step 4, one URL: scrape, metadata, upsert, then populateSentences.
CronIndexPage(scrape, meta, upsertOk, insertOk) ==
    /\ cron.pc = "index"
    /\ LET url == Head(cron.newUrls)
           c == [cron EXCEPT !.newUrls = Tail(@)]
           thrown == IF ~scrape.ok THEN "fetch"
                     ELSE IF ~meta.ok THEN "oracle"
                     ELSE IF ~upsertOk THEN "pages" ELSE "none"
       IN  IF thrown # "none"
           THEN /\ cron' = Settle(Counted(c, "index", url, thrown, "none", "error", 0, 0, FALSE))
                /\ UNCHANGED <<pages, sentences>>
           ELSE /\ pages' = UpsertPage(pages, url, scrape.content, meta.keywords)
                /\ sentences' = Populated(sentences, url, PageTitle(url), scrape.content, insertOk)
                /\ cron' = Settle(Counted(c, "index", url,
                                          IF InsertRejected(scrape.content, insertOk)
                                          THEN "sentences" ELSE "none",
                                          "none", "inserted", 0, 0, FALSE))
    /\ UNCHANGED <<kwCalls, sugVars, run, pop, reindexed, urlVars>>

\* Step 5, one URL: scrape, metadata if the row has none, update, then
\* populateSentences.
CronBackfillPage(scrape, meta, updateOk, insertOk) ==
    /\ cron.pc = "backfill"
    /\ LET url == Head(cron.backfill)
           c == [cron EXCEPT !.backfill = Tail(@)]
           needsMeta == \A i \in PageAt(pages, url) : pages[i].keywords = <<>>
           thrown == IF ~scrape.ok THEN "fetch"
                     ELSE IF needsMeta /\ ~meta.ok THEN "oracle"
                     ELSE IF ~updateOk THEN "pages" ELSE "none"
       IN  IF thrown # "none"
           THEN /\ cron' = Settle(Counted(c, "backfill", url, thrown, "none", "error", 0, 0, FALSE))
                /\ UNCHANGED <<pages, sentences>>
           ELSE /\ pages' = BackfillPage(pages, url, scrape.content, needsMeta, meta.keywords)
                /\ sentences' = Populated(sentences, url, PageTitle(url), scrape.content, insertOk)
                /\ cron' = Settle(Counted(c, "backfill", url,
                                          IF InsertRejected(scrape.content, insertOk)
                                          THEN "sentences" ELSE "none",
                                          "none", "backfilled", 0, 0, FALSE))
    /\ UNCHANGED <<kwCalls, sugVars, run, pop, reindexed, urlVars>>

\* A query without the analyzed_at filter.
ToAnalyzeAgain(table) ==
    LET Open(r) == r.has_content
        Content(r) == isContentPage(r.url)
        Newest(open) == [i \in 1 .. Len(open) |-> open[Len(open) + 1 - i]]
        Queued(newestFirst) ==
            FirstN(SelectSeq(FirstN(newestFirst, UnanalyzedLimit), Content), MAX_ANALYSIS_PER_RUN)
        Fields(queued) ==
            [i \in 1 .. Len(queued) |->
                [url |-> queued[i].url, title |-> queued[i].title, content |-> queued[i].content]]
    IN  CHOOSE toAnalyze \in
            { Fields(queued) :
                queued \in { Queued(newestFirst) :
                    newestFirst \in { Newest(open) : open \in {SelectSeq(table, Open)} } } } : TRUE

\* .is('analyzed_at', null).not('content', 'is', null).order('created_at',
\* { ascending: false }).limit(100), then the filter and the slice.  Each
\* stage is computed once, from the value of the stage before it.
ToAnalyze(table) ==
    LET Open(r) == ~r.analyzed /\ r.has_content
        Content(r) == isContentPage(r.url)
        Newest(open) == [i \in 1 .. Len(open) |-> open[Len(open) + 1 - i]]
        Queued(newestFirst) ==
            FirstN(SelectSeq(FirstN(newestFirst, UnanalyzedLimit), Content), MAX_ANALYSIS_PER_RUN)
        Fields(queued) ==
            [i \in 1 .. Len(queued) |->
                [url |-> queued[i].url, title |-> queued[i].title, content |-> queued[i].content]]
    IN  CHOOSE toAnalyze \in
            { Fields(queued) :
                queued \in { Queued(newestFirst) :
                    newestFirst \in { Newest(open) : open \in {SelectSeq(table, Open)} } } } : TRUE

\* Step 6, the query: its failure skips the analyses.
CronQuery(queryOk) ==
    /\ cron.pc = "query"
    /\ cron' = Settle([cron EXCEPT !.pc = "analyze",
                                   !.toAnalyze = IF queryOk THEN ToAnalyze(pages) ELSE <<>>])
    /\ UNCHANGED <<pages, kwCalls, sugVars, idxVars, urlVars>>

\* The keywords analyzeUrl works with: lib/analyze.js asks the oracle on
\* every call; the keyword-only version reads pages.keywords and asks the
\* oracle when the row has none.
AsksKeywords(version, table, url) ==
    \/ version = "oracle"
    \/ \A i \in PageAt(table, url) : table[i].keywords = <<>>

CachedKeywords(table, url) == table[CHOOSE i \in PageAt(table, url) : TRUE].keywords

\* Step 6, one page: analyzeUrl, saveSuggestions, the analyzed_at update.
CronAnalyzePage(kw, cacheOk, dbOk, response, saveOk, markOk) ==
    /\ cron.pc = "analyze"
    /\ LET page == Head(cron.toAnalyze)
           url == page.url
           asks == AsksKeywords(cron.version, pages, url)
           keywords == IF asks THEN kw.keywords ELSE CachedKeywords(pages, url)
           cached == IF asks /\ kw.ok /\ cron.version = "keyword" /\ cacheOk
                     THEN CacheKeywords(pages, url, kw.keywords) ELSE pages
           Of(store) == { id \in DOMAIN store : store[id].target_url = url }
       IN  \E analysis \in { IF cron.version = "oracle"
                              THEN OracleAnalysis(sentences, url, keywords, response)
                              ELSE KeywordAnalysis(sentences, url, keywords) } :
           \E saved \in { Saved(suggestions, nextId, url, page.title, analysis.suggestions, saveOk) } :
           \E c \in { [cron EXCEPT !.toAnalyze = Tail(@)] } :
           LET reply == IF cron.version = "oracle" /\ analysis.candidates # <<>>
                        THEN response.text ELSE "none"
               thrown == IF asks /\ ~kw.ok THEN "oracle"
                         ELSE IF ~dbOk THEN "sentences"
                         ELSE IF analysis.outcome = "threw" THEN "oracle" ELSE "none"
               failure == IF asks /\ cron.version = "keyword" /\ ~cacheOk THEN "pages"
                          ELSE IF saved.rejected THEN "suggestions"
                          ELSE IF ~markOk THEN "pages" ELSE "none"
           IN  /\ kwCalls' = IF asks /\ kwCalls[url] < MaxKwCalls
                              THEN [kwCalls EXCEPT ![url] = @ + 1] ELSE kwCalls
               /\ IF thrown # "none"
                  THEN /\ cron' = Settle(Counted(c, "analyze", url, thrown,
                                                 IF (asks /\ ~kw.ok) \/ ~dbOk THEN "none" ELSE reply,
                                                 "error", 0, Cardinality(Of(suggestions)), FALSE))
                       /\ pages' = IF asks /\ ~kw.ok THEN pages ELSE cached
                       /\ UNCHANGED <<suggestions, nextId>>
                  ELSE /\ suggestions' = saved.store
                       /\ nextId' = saved.next
                       /\ pages' = IF markOk THEN MarkAnalyzed(cached, url) ELSE cached
                       /\ cron' = Settle(Counted(c, "analyze", url, failure, reply, "analyzed",
                                                 Len(analysis.suggestions),
                                                 Cardinality(Of(saved.store)), markOk))
    /\ UNCHANGED <<lc, last, idxVars, urlVars>>

\* The run answers with its summary.
Answered(c) == [c EXCEPT !.pc = "idle", !.response = "ok"]

\* Step 7: processLinkChecks(3); a failure of its query is logged, and an
\* empty selection returns at once.
CronLinkSelect(selectOk) ==
    /\ cron.pc = "linkcheck"
    /\ IF ~selectOk
       THEN /\ cron' = Answered(cron)
            /\ UNCHANGED <<sugVars, idxVars>>
       ELSE /\ LcSelect(1, LinkCheckBatch)
            /\ cron' = IF SelectPending(suggestions, LinkCheckBatch) = <<>>
                       THEN Answered(cron) ELSE [cron EXCEPT !.pc = "checking"]
    /\ UNCHANGED <<pages, kwCalls, urlVars>>

CronLinkRow(outcome) ==
    /\ cron.pc = "checking"
    /\ LcRow(1, outcome)
    /\ UNCHANGED <<cronVars, urlVars>>

CronLinkReturn ==
    /\ cron.pc = "checking"
    /\ LcReturn(1)
    /\ cron' = Answered(cron)
    /\ UNCHANGED <<pages, kwCalls, urlVars>>

CronIndex ==
    \E scrape \in ScrapeOutcomes, meta \in MetaOutcomes, upsertOk \in BOOLEAN, insertOk \in BOOLEAN :
        CronIndexPage(scrape, meta, upsertOk, insertOk)

CronBackfill ==
    \E scrape \in ScrapeOutcomes, meta \in MetaOutcomes, updateOk \in BOOLEAN, insertOk \in BOOLEAN :
        CronBackfillPage(scrape, meta, updateOk, insertOk)

CronAnalyze ==
    \E kw \in KeywordOutcomes, cacheOk \in BOOLEAN, dbOk \in BOOLEAN,
       response \in CronResponses, saveOk \in BOOLEAN, markOk \in BOOLEAN :
        CronAnalyzePage(kw, cacheOk, dbOk, response, saveOk, markOk)

CronLinkCheck ==
    \/ \E selectOk \in BOOLEAN : CronLinkSelect(selectOk)
    \/ \E outcome \in {FetchFailed, [ok |-> TRUE, hrefs |-> {}]} : CronLinkRow(outcome)
    \/ CronLinkReturn

\* The outcomes a run of the schedule meets: the site answers a scrape or
\* does not, the oracle's metadata and keyphrases arrive, the sentences
\* query of an analysis succeeds or fails, and the second oracle answers
\* with an array or with text that does not decode.
Scraped == [ok |-> TRUE, content |-> <<FragA, FragB>>]
Described == [ok |-> TRUE, keywords |-> <<K2, K1>>]
ScheduledResponses == { Response("array", <<1, 2>>), Response("broken", <<>>) }

\* The route under a schedule that never ends.
Scheduled ==
    \/ \E sitemapOk \in BOOLEAN : CronRestart(sitemapOk, TRUE)
    \/ \E scrape \in ScrapeOutcomes : CronIndexPage(scrape, Described, TRUE, TRUE)
    \/ \E scrape \in ScrapeOutcomes : CronBackfillPage(scrape, Described, TRUE, TRUE)
    \/ \E queryOk \in BOOLEAN : CronQuery(queryOk)
    \/ \E dbOk \in BOOLEAN, response \in ScheduledResponses :
          CronAnalyzePage(Described, TRUE, dbOk, response, TRUE, TRUE)
    \/ CronLinkCheck

GET ==
    \/ \E sitemapOk \in BOOLEAN, selectOk \in BOOLEAN : CronStart(sitemapOk, selectOk)
    \/ CronIndex
    \/ CronBackfill
    \/ \E queryOk \in BOOLEAN : CronQuery(queryOk)
    \/ CronAnalyze
    \/ CronLinkCheck

(* ------------------------------------------------------------------ *)
(* POST /api/analyze                                                  *)
(* ------------------------------------------------------------------ *)

\* What the log of saveSuggestions shows of a call: nothing written for an
\* empty batch, the message of the store for a rejected upsert (the store
\* is unavailable, or two rows of the batch hold one pair), or no message.
SaveLog(targetUrl, targetTitle, batch, storeUp) ==
    LET rows == UpsertRows(targetUrl, targetTitle, DedupBySource(batch))
    IN  IF batch = <<>> THEN "empty"
        ELSE IF ~storeUp THEN "unavailable"
        ELSE IF BatchCollides(rows) THEN "collision"
        ELSE "saved"

\* The handler: analyzeUrl(url), then saveSuggestions(url, newPostTitle,
\* suggestions); whatever analyzeUrl throws is answered 500.
POST(version, url, keywords, response, storeUp) ==
    LET analysis == IF version = "oracle"
                    THEN OracleAnalysis(sentences, url, keywords, response)
                    ELSE KeywordAnalysis(sentences, url, keywords)
        title == PageTitle(url)
        saved == Saved(suggestions, nextId, url, title, analysis.suggestions, storeUp)
        rows == UpsertRows(url, title, DedupBySource(analysis.suggestions))
    IN  /\ run' = analysis
        /\ IF analysis.outcome = "threw"
           THEN /\ last' = Did("post", 0, {}, "500")
                /\ UNCHANGED <<suggestions, nextId>>
           ELSE /\ suggestions' = saved.store
                /\ nextId' = saved.next
                /\ last' = Did("save", 0, Conflicts(suggestions, rows),
                               SaveLog(url, title, analysis.suggestions, storeUp))
        /\ UNCHANGED <<lc, sentences, pop, reindexed, cronVars, urlVars>>

\* The answers of the oracle to a request: some of the candidates, or prose.
PostResponses ==
    { Response("array", e) : e \in {<<>>, <<2>>, <<1, 2>>} } \cup {Response("prose", <<>>)}

PostAnalyze ==
    \E version \in {"oracle", "keyword"}, url \in AnalysisUrls, keywords \in KeywordLists,
       response \in PostResponses, storeUp \in BOOLEAN :
        POST(version, url, keywords, response, storeUp)

(* ------------------------------------------------------------------ *)
(* populateSentences, call after call                                 *)
(* ------------------------------------------------------------------ *)

\* The call has the page and the fragments of the call that returned just
\* before it, whose writes the store performed.
Repeats(pageUrl, found) ==
    /\ reindexed.op \in {"populate", "repeat"}
    /\ reindexed.page_url = pageUrl
    /\ reindexed.found = found
    /\ reindexed.result # "insert failed"

\* One call of populateSentences from its start to its return; `reindexed`
\* tells a call that repeats the one before it from another.
Reindex(pageUrl, content, insertOk) ==
    LET found == splitSentences(content)
        result == IF content = <<>> \/ found = <<>> THEN "skipped"
                  ELSE IF insertOk THEN "inserted" ELSE "insert failed"
    IN  /\ sentences' = Populated(sentences, pageUrl, PageTitle(pageUrl), content, insertOk)
        /\ reindexed' = [Returns(pageUrl, found, result) EXCEPT
                            !.op = IF Repeats(pageUrl, found) THEN "repeat" ELSE "populate"]
        /\ UNCHANGED <<run, pop, sugVars, cronVars, urlVars>>

ReindexPage ==
    \E pageUrl \in PopulatedPages, content \in Contents, insertOk \in BOOLEAN :
        Reindex(pageUrl, content, insertOk)

(* ------------------------------------------------------------------ *)
(* normalizeUrl on two spellings                                      *)
(* ------------------------------------------------------------------ *)

\* The two strings a caller holds are normalised.
Normalize ==
    /\ ~norm.asked
    /\ norm' = [norm EXCEPT !.asked = TRUE, !.na = normalizeUrl(norm.a),
                            !.nb = normalizeUrl(norm.b)]
    /\ UNCHANGED <<sugVars, idxVars, cronVars>>

(* ------------------------------------------------------------------ *)
(* Specification of the suggestions table                             *)
(* ------------------------------------------------------------------ *)

Init ==
    /\ suggestions = <<>>
    /\ nextId = 1
    /\ lc = [p \in Passes |-> IdlePass]
    /\ last = Did("none", 0, {}, "none")
    /\ sentences = <<>>
    /\ run = NoRun
    /\ pop = [p \in Indexers |-> IdleIndexer]
    /\ reindexed = NoReindex
    /\ pages = <<>>
    /\ cron = IdleCron("oracle")
    /\ kwCalls = [u \in SiteUrls |-> 0]
    /\ norm = NoNorm

LinkCheck == \E p \in PassIds : processLinkChecks(p)

Next == SaveSuggestions \/ LinkCheck \/ Patch

Spec == Init /\ [][Next]_vars

\* Two passes and the saves of analyses, interleaved at every step.
NextReentrant == SaveSuggestions \/ \E p \in Passes : processLinkChecks(p)

SpecReentrant == Init /\ [][NextReentrant]_vars

\* The calls of populateSentences of one cron route, one after the other.
SpecPopulate == Init /\ [][PopulateSentences]_vars

\* Two calls of populateSentences, interleaved at every step.
NextReindex == \E p \in Indexers : populateSentences(p)

SpecReindex == Init /\ [][NextReindex]_vars

\* Analyses of an index of many matching sentences.
InitBig ==
    /\ suggestions = <<>>
    /\ nextId = 1
    /\ lc = [p \in Passes |-> IdlePass]
    /\ last = Did("none", 0, {}, "none")
    /\ sentences \in { BigTable(n, perPage) : n \in TableSizes, perPage \in 1 .. 2 }
    /\ run = NoRun
    /\ pop = [p \in Indexers |-> IdleIndexer]
    /\ reindexed = NoReindex
    /\ pages = <<>>
    /\ cron = IdleCron("oracle")
    /\ kwCalls = [u \in SiteUrls |-> 0]
    /\ norm = NoNorm

SpecBig == InitBig /\ [][AnalyzeBig]_vars

\* The cron route, in either version of lib/analyze.js, over a pages table
\* that holds a row without content, of a content page or of a category
\* page; the other pages of the sitemap are new.
InitCron ==
    /\ suggestions = <<>>
    /\ nextId = 1
    /\ lc = [p \in Passes |-> IdlePass]
    /\ last = Did("none", 0, {}, "none")
    /\ sentences = <<>>
    /\ run = NoRun
    /\ pop = [p \in Indexers |-> IdleIndexer]
    /\ reindexed = NoReindex
    /\ pages \in {<<BareRow(S1)>>, <<BareRow(CategoryPage)>>}
    /\ cron \in {IdleCron("oracle"), IdleCron("keyword")}
    /\ kwCalls = [u \in SiteUrls |-> 0]
    /\ norm = NoNorm

SpecCron == InitCron /\ [][GET]_vars

\* The index after populateSentences was called for each page of a list.
RECURSIVE IndexOf(_)
IndexOf(urls) ==
    IF urls = <<>> THEN <<>>
    ELSE Populated(IndexOf(Tail(urls)), Head(urls), PageTitle(Head(urls)),
                   <<FragA, FragB>>, TRUE)

\* Requests to POST /api/analyze over an index of none, one or two pages.
InitPost ==
    /\ suggestions = <<>>
    /\ nextId = 1
    /\ lc = [p \in Passes |-> IdlePass]
    /\ last = Did("none", 0, {}, "none")
    /\ sentences \in { IndexOf(urls) : urls \in {<<>>, <<S1>>, <<S2, S1>>} }
    /\ run = NoRun
    /\ pop = [p \in Indexers |-> IdleIndexer]
    /\ reindexed = NoReindex
    /\ pages = <<>>
    /\ cron = IdleCron("oracle")
    /\ kwCalls = [u \in SiteUrls |-> 0]
    /\ norm = NoNorm

SpecPost == InitPost /\ [][PostAnalyze]_vars

\* Calls of populateSentences one after the other.
SpecTwice == Init /\ [][ReindexPage]_vars

\* Calls of normalizeUrl on every pair of spellings.
InitUrl ==
    /\ suggestions = <<>>
    /\ nextId = 1
    /\ lc = [p \in Passes |-> IdlePass]
    /\ last = Did("none", 0, {}, "none")
    /\ sentences = <<>>
    /\ run = NoRun
    /\ pop = [p \in Indexers |-> IdleIndexer]
    /\ reindexed = NoReindex
    /\ pages = <<>>
    /\ cron = IdleCron("oracle")
    /\ kwCalls = [u \in SiteUrls |-> 0]
    /\ norm \in { [NoNorm EXCEPT !.a = a, !.b = b] : a \in Spellings, b \in Spellings }

SpecUrl == InitUrl /\ [][Normalize]_vars

\* The cron route on a schedule that never ends.  The pages table holds an
\* old content page and one row fewer than, or as many newer category
\* pages as, the query reads; or an analysed page and one row fewer than, or
\* as many rows without content as, a run scrapes.
\* The schedule keeps requesting the route and a started run goes on; the
\* sitemap, the pages table and the query are not out of reach for ever,
\* and a new URL that keeps being scraped is inserted in the end.
InitRepeat ==
    /\ suggestions = <<>>
    /\ nextId = 1
    /\ lc = [p \in Passes |-> IdlePass]
    /\ last = Did("none", 0, {}, "none")
    /\ sentences = <<>>
    /\ run = NoRun
    /\ pop = [p \in Indexers |-> IdleIndexer]
    /\ reindexed = NoReindex
    /\ pages \in { OldPageThen(n) : n \in {UnanalyzedLimit - 1, UnanalyzedLimit} }
                 \cup { DonePageThen(n) : n \in {MAX_INDEXING_PER_RUN - 1, MAX_INDEXING_PER_RUN} }
    /\ cron \in {IdleCron("oracle"), IdleCron("keyword")}
    /\ kwCalls = [u \in SiteUrls |-> 0]
    /\ norm = NoNorm

\* A new URL whose fetch, metadata and writes succeed.
IndexedWell == CronIndexPage(Scraped, Described, TRUE, TRUE)

SpecRepeat ==
    /\ InitRepeat /\ [][Scheduled]_vars
    /\ WF_vars(Scheduled)
    /\ SF_vars(CronRestart(TRUE, TRUE))
    /\ SF_vars(IndexedWell)
    /\ SF_vars(CronQuery(TRUE))

\* The last request of a behaviour, over tables that hold more than a run
\* takes: three rows without content, or one such row beside the new URLs
\* of the sitemap; one post more than a run analyses; one pending
\* suggestion more than a run checks.
Requested ==
    \/ \E sitemapOk \in BOOLEAN : CronStart(sitemapOk, TRUE)
    \/ \E scrape \in ScrapeOutcomes : CronIndexPage(scrape, Described, TRUE, TRUE)
    \/ \E scrape \in ScrapeOutcomes : CronBackfillPage(scrape, Described, TRUE, TRUE)
    \/ \E queryOk \in BOOLEAN : CronQuery(queryOk)
    \/ \E dbOk \in BOOLEAN :
          CronAnalyzePage(Described, TRUE, dbOk, Response("array", <<1, 2>>), TRUE, TRUE)
    \/ CronLinkCheck

InitCaps ==
    /\ suggestions = PendingRows
    /\ nextId = Len(PendingRows) + 1
    /\ lc = [p \in Passes |-> IdlePass]
    /\ last = Did("none", 0, {}, "none")
    /\ sentences = <<>>
    /\ run = NoRun
    /\ pop = [p \in Indexers |-> IdleIndexer]
    /\ reindexed = NoReindex
    /\ pages \in { WaitingPages(bare, MAX_ANALYSIS_PER_RUN + 1) :
                      bare \in {1, MAX_INDEXING_PER_RUN + 1} }
    /\ cron \in { [IdleCron(version) EXCEPT !.runs = MaxRuns - 1] :
                     version \in {"oracle", "keyword"} }
    /\ kwCalls = [u \in SiteUrls \cup { PostUrl(k) : k \in 1 .. MAX_ANALYSIS_PER_RUN + 1 } |-> 0]
    /\ norm = NoNorm

SpecCaps == InitCaps /\ [][Requested]_vars

\* The index as scripts/buildSentences.js builds it and the analyses that
\* read it.
NextIndex == BuildSentences \/ AnalyzeUrl

SpecIndex == Init /\ [][NextIndex]_vars

\* The deferred pass keeps being run: the scheduler calls it on every cron
\* run, and each await of a started pass completes.
SpecFair == Spec /\ \A p \in PassIds : WF_vars(processLinkChecks(p))

\* A step that is no call of saveSuggestions.
NoSave == last'.op # "save" \/ UNCHANGED <<suggestions, nextId, last>>

\* The behaviours of SpecFair in which analyses stop at some point: from
\* then on no suggestion is created or upserted, while passes and review
\* updates go on.
SpecDrain == SpecFair /\ <>[][NoSave]_vars

(* ------------------------------------------------------------------ *)
(* Properties of the suggestions table                                *)
(* ------------------------------------------------------------------ *)

SamePair(a, b) == a.target_url = b.target_url /\ a.source_url = b.source_url

Stored(id) == id \in DOMAIN suggestions

\* A step of saveSuggestions that wrote to the table: only saveSuggestions
\* leaves last.op = "save", and each writer of the table sets last.
SaveStep == last'.op = "save" /\ suggestions' # suggestions

\* A step of the loop of pass p: the pass stays in the loop and its
\* selection shrinks; the row examined is the head of the selection and the
\* outcome is the one last records.
RowStep(p, result) ==
    /\ lc[p].pc = "loop" /\ lc'[p].pc = "loop" /\ lc'[p] # lc[p]
    /\ last'.op = "check" /\ last'.result = result

\* C1: no two stored suggestions share a (targetUrl, sourceUrl) pair, after
\* any interleaving of saves, link-check steps and review updates.
C1_UniquePair ==
    \A i, j \in DOMAIN suggestions :
        SamePair(suggestions[i], suggestions[j]) => i = j

\* A save has just hit a stored pair (the target was analysed again) and the
\* pair still has exactly one row.
C1_Witness ==
    /\ last.op = "save" /\ last.result = "saved"
    /\ \E id \in last.ids :
          /\ Stored(id)
          /\ Cardinality({ k \in DOMAIN suggestions :
                             SamePair(suggestions[k], suggestions[id]) }) = 1

\* C2: an upsert by saveSuggestions leaves the reviewStatus of every row
\* that was already stored as it was.
C2_StatusKept ==
    [][SaveStep =>
         \A id \in DOMAIN suggestions :
             id \in DOMAIN suggestions' => suggestions'[id].status = suggestions[id].status]_vars

\* C3: a row whose link check found the normalized target among the
\* source's normalized hrefs is not in the table.
C3_LinkedDeleted ==
    (last.op = "check" /\ last.result = "linked") => ~Stored(last.id)

\* A check has found the link; the hrefs offered are all spelled otherwise
\* than the stored target URLs, so the match went through normalizeUrl.
C3_Witness ==
    /\ last.op = "check" /\ last.result = "linked"
    /\ ~Stored(last.id)
    /\ lc[1].filtered > 0

\* C4 as claimed: every stored unverified suggestion is eventually deleted
\* or verified, whatever its reviewStatus.
C4_AnyStatusConverges ==
    \A id \in 1 .. MaxId :
        (Stored(id) /\ ~suggestions[id].link_checked)
            ~> (~Stored(id) \/ suggestions[id].link_checked)

\* C4 as amended: every stored unverified suggestion whose reviewStatus is
\* pending is eventually deleted, verified, or taken out of pending by a
\* review update.
C4_PendingConverges ==
    \A id \in 1 .. MaxId :
        (Stored(id) /\ ~suggestions[id].link_checked /\ suggestions[id].status = "pending")
            ~> (\/ ~Stored(id)
                \/ suggestions[id].link_checked
                \/ suggestions[id].status # "pending")

\* A pass has verified the second-oldest row: it waited for its turn.
C4_Witness ==
    /\ last.op = "check" /\ last.result \in {"clean", "failed"}
    /\ last.id = 2
    /\ Stored(2) /\ suggestions[2].link_checked

\* C5: an upsert leaves linkVerified of a stored row as it was, and no step
\* takes linkVerified of a stored row from true to false.
C5_NeverUnverified ==
    [][/\ SaveStep =>
             \A id \in DOMAIN suggestions :
                 id \in DOMAIN suggestions' =>
                     suggestions'[id].link_checked = suggestions[id].link_checked
       /\ \A id \in DOMAIN suggestions :
             (suggestions[id].link_checked /\ id \in DOMAIN suggestions') =>
                 suggestions'[id].link_checked]_vars

\* A save has just hit a row that is verified, and it still is.
C5_Witness ==
    /\ last.op = "save" /\ last.result = "saved"
    /\ \E id \in last.ids : Stored(id) /\ suggestions[id].link_checked

\* C6: a check that fetched the source and did not find the target keeps
\* the row and changes nothing of it but link_checked, which becomes true.
C6_CleanKept ==
    [][\A p \in PassIds :
          (RowStep(p, "clean") /\ Stored(Head(lc[p].pending).id))
          => LET id == Head(lc[p].pending).id
             IN  /\ id \in DOMAIN suggestions'
                 /\ suggestions'[id] = [suggestions[id] EXCEPT !.link_checked = TRUE]]_vars

\* A clean check has verified a row a reviewer accepted after the pass had
\* selected it: the row is kept, verified and still accepted.
C6_Witness ==
    /\ last.op = "check" /\ last.result = "clean"
    /\ Stored(last.id)
    /\ suggestions[last.id].link_checked
    /\ suggestions[last.id].status = "accepted"

Returned == run.pipeline # "none"

\* The pages the entries of a list come from, one per entry.
Sources(list) == [i \in 1 .. Len(list) |-> list[i].sourceUrl]

NoRepeat(seq) == \A i, j \in 1 .. Len(seq) : seq[i] = seq[j] => i = j

\* The stored rows of the page, and those the query of the run matches.
RowsOf(pageUrl) ==
    { i \in 1 .. Len(sentences) : sentences[i].page_url = pageUrl }

MatchingRowsOf(pageUrl) ==
    { i \in RowsOf(pageUrl) :
          \E k \in 1 .. Len(run.keywords) : run.keywords[k] \in sentences[i].sentence.has }

\* The stored row an entry was made from (a page holds a text once).
MadeFrom(pageUrl, text) ==
    { i \in RowsOf(pageUrl) : sentences[i].sentence.text = text }

LinksToTarget(i) == normalizeUrl(run.url) \in sentences[i].existing_links

\* C8: the candidates handed to the oracle and the suggestions a run
\* returns never hold two entries with the same sourceUrl.
C8_OnePerSource ==
    Returned => /\ NoRepeat(Sources(run.candidates))
                /\ NoRepeat(Sources(run.suggestions))

\* The same, of the keyword-only version alone.
OnePerSourceKeywordOnly ==
    run.pipeline = "keyword" => NoRepeat(Sources(run.suggestions))

\* C9: no candidate and no suggestion of a run comes from the target page
\* itself, pages being the same when their normalised URLs are equal.
C9_NeverOwnTarget ==
    Returned =>
        /\ \A i \in 1 .. Len(run.candidates) :
              normalizeUrl(run.candidates[i].sourceUrl) # normalizeUrl(run.url)
        /\ \A i \in 1 .. Len(run.suggestions) :
              normalizeUrl(run.suggestions[i].sourceUrl) # normalizeUrl(run.url)

\* C10: no candidate and no suggestion of a run is made from a stored
\* fragment whose existing_links hold the normalised target, and a page all
\* of whose matching fragments link to the target gets no suggestion.
C10_PreFilter ==
    Returned =>
        /\ \A i \in 1 .. Len(run.candidates) :
              \A r \in MadeFrom(run.candidates[i].sourceUrl, run.candidates[i].sentence.text) :
                  ~LinksToTarget(r)
        /\ \A i \in 1 .. Len(run.suggestions) :
              \A r \in MadeFrom(run.suggestions[i].sourceUrl, run.suggestions[i].context) :
                  ~LinksToTarget(r)
        /\ \A pageUrl \in IndexedPages :
              (/\ MatchingRowsOf(pageUrl) # {}
               /\ \A r \in MatchingRowsOf(pageUrl) : LinksToTarget(r))
              => \A i \in 1 .. Len(run.suggestions) : run.suggestions[i].sourceUrl # pageUrl

\* The same, of the keyword-only version alone.
PreFilterKeywordOnly == run.pipeline = "keyword" => C10_PreFilter

\* A keyword-only run that skipped a fragment linking to the target and
\* still returned a suggestion.
PreFilterKeywordOnlyActed ==
    /\ run.pipeline = "keyword"
    /\ run.suggestions # <<>>
    /\ \E i \in 1 .. Len(sentences) : LinksToTarget(i)

(* ------------------------------------------------------------------ *)
(* Creation of rows and the order of a pass                           *)
(* ------------------------------------------------------------------ *)

\* C17: a row saveSuggestions creates starts pending and unverified, and a
\* stored row becomes verified only in the step of a pass that examined it
\* and found no link or could not fetch the source.
C17_StartsUnverified ==
    [][/\ \A id \in DOMAIN suggestions' \ DOMAIN suggestions :
             /\ last'.op = "save"
             /\ suggestions'[id].status = "pending"
             /\ ~suggestions'[id].link_checked
       /\ \A id \in DOMAIN suggestions \cap DOMAIN suggestions' :
             (~suggestions[id].link_checked /\ suggestions'[id].link_checked)
             => \E p \in PassIds :
                   /\ lc[p].pc = "loop" /\ lc[p].pending # <<>>
                   /\ Head(lc[p].pending).id = id
                   /\ lc'[p].pending = Tail(lc[p].pending)
                   /\ last' = Did("check", id, {}, last'.result)
                   /\ last'.result \in {"clean", "failed"}]_vars

\* A save has just created two rows, both pending and unverified, next to
\* nothing else.
C17_Witness ==
    /\ last.op = "save" /\ last.result = "saved" /\ last.ids = {}
    /\ DOMAIN suggestions = 1 .. 2
    /\ \A id \in DOMAIN suggestions :
          suggestions[id].status = "pending" /\ ~suggestions[id].link_checked

\* The rows of a store no pass has verified yet.
Unverified(store) == { id \in DOMAIN store : ~store[id].link_checked }

\* The ids of a selection.
SelectedIds(pending) == { pending[i].id : i \in 1 .. Len(pending) }

\* What every selection of a pass satisfies, whatever the store: at most
\* batchSize rows, all unverified, in creation order.
BoundedAscending(store, batchSize) ==
    LET pending == SelectPending(store, batchSize)
    IN  /\ Len(pending) <= batchSize
        /\ SelectedIds(pending) \subseteq Unverified(store)
        /\ \A i, j \in 1 .. Len(pending) : i < j => pending[i].id < pending[j].id

\* A pass examines the head of its selection, counts what it selected as
\* processed and what it deleted as filtered, and returns with nothing left.
ExaminesInOrder ==
    \A p \in PassIds :
        /\ (lc[p].pc = "idle" /\ lc'[p].pc = "loop")
           => /\ lc'[p].processed = Len(lc'[p].pending)
              /\ lc'[p].filtered = 0
        /\ (lc[p].pc = "loop" /\ lc'[p].pc = "loop" /\ lc'[p] # lc[p])
           => /\ lc'[p].pending = Tail(lc[p].pending)
              /\ last' = Did("check", Head(lc[p].pending).id, {}, last'.result)
              /\ lc'[p].processed = lc[p].processed
              /\ lc'[p].filtered = lc[p].filtered +
                    Cardinality(DOMAIN suggestions \ DOMAIN suggestions')
        /\ (lc[p].pc = "loop" /\ lc'[p].pc = "idle") => lc[p].pending = <<>>

Settled(id) ==
    id < nextId /\ (id \notin DOMAIN suggestions \/ suggestions[id].link_checked)

\* C18: with two passes and the saves of analyses interleaved at every
\* step, the step of a pass on a row leaves that row deleted or verified and
\* every other row as it was, a row once deleted or verified stays so, and
\* no (target_url, source_url) pair is ever stored twice.
C18_Reentrant ==
    /\ [][\A p \in Passes :
             (lc[p].pc = "loop" /\ lc'[p].pc = "loop" /\ lc'[p] # lc[p])
             => LET id == Head(lc[p].pending).id
                IN  /\ DOMAIN suggestions' = DOMAIN suggestions \ {id}
                       \/ /\ DOMAIN suggestions' = DOMAIN suggestions
                          /\ id \in DOMAIN suggestions => suggestions'[id].link_checked
                    /\ \A k \in DOMAIN suggestions' \ {id} : suggestions'[k] = suggestions[k]
                    /\ nextId' = nextId]_vars
    /\ [][\A id \in 1 .. MaxId :
             Settled(id) => (id < nextId' /\ (id \notin DOMAIN suggestions'
                                               \/ suggestions'[id].link_checked))]_vars
    /\ [](\A a, b \in DOMAIN suggestions :
             SamePair(suggestions[a], suggestions[b]) => a = b)

\* Both passes selected the same row; one has deleted it, a save has stored
\* its pair again, and the other pass still holds the deleted row.
C18_Witness ==
    /\ lc[1].pc = "loop" /\ lc[2].pc = "loop"
    /\ \E i \in 1 .. Len(lc[2].pending) :
          /\ lc[2].pending[i].id \notin DOMAIN suggestions
          /\ RowOf(suggestions, lc[2].pending[i].target_url, lc[2].pending[i].source_url) # {}

(* ------------------------------------------------------------------ *)
(* Properties of a reindex                                            *)
(* ------------------------------------------------------------------ *)

\* The fragments the table holds for a page, in the table's order.
StoredFragments(pageUrl) ==
    LET OfPage(r) == r.page_url = pageUrl
        rows == SelectSeq(sentences, OfPage)
    IN  [i \in 1 .. Len(rows) |-> rows[i].sentence]

Range(seq) == { seq[i] : i \in 1 .. Len(seq) }

\* C12: once populateSentences has returned, the fragments stored for the
\* page are exactly the filtered fragments of the content of that call,
\* also when there are none and when the insert was rejected.
C12_ExactlyGiven ==
    reindexed.op = "populate"
    => Range(StoredFragments(reindexed.page_url)) = Range(reindexed.found)

\* What a complete pass over a content with a usable sentence stores.
CompletePasses == { splitSentences(c) : c \in Contents } \ {<<>>}

\* C13: in every state the fragments stored for a page are those of one
\* complete pass, and a page that holds fragments never holds none, a part
\* of a pass or the fragments of two passes in the next state.
C13_OnePass ==
    /\ [](\A pageUrl \in PopulatedPages :
             StoredFragments(pageUrl) \in CompletePasses \cup {<<>>})
    /\ [][\A pageUrl \in PopulatedPages :
             StoredFragments(pageUrl) # <<>>
             => StoredFragments(pageUrl)' \in CompletePasses]_vars

(* ------------------------------------------------------------------ *)
(* The caps of a run                                                  *)
(* ------------------------------------------------------------------ *)

\* The cap of the version that ran.
Cap == IF run.pipeline = "keyword" THEN MaxKeywordSuggestions ELSE MaxCandidates

\* C20: a run hands at most 15 candidates to the oracle and returns at most
\* 15 suggestions (30 in the keyword-only version), however many sentences
\* match.
C20_Capped ==
    Returned => /\ Len(run.candidates) <= MaxCandidates
                /\ Len(run.suggestions) <= Cap

\* The part of it the code enforces: the candidates handed to the oracle,
\* and the suggestions of the keyword-only version.
CappedByCode ==
    Returned => /\ Len(run.candidates) <= MaxCandidates
                /\ run.pipeline = "keyword" => Len(run.suggestions) <= MaxKeywordSuggestions

\* Both caps were reached.
CappedByCodeActed ==
    \/ Len(run.candidates) = MaxCandidates /\ Len(sentences) > QueryLimit
    \/ run.pipeline = "keyword" /\ Len(run.suggestions) = MaxKeywordSuggestions

(* ------------------------------------------------------------------ *)
(* Failures in a cron run                                             *)
(* ------------------------------------------------------------------ *)

\* The latest iteration was an analysis that the run counted as analysed.
CountedAnalyzed == cron.step.loop = "analyze" /\ cron.step.counted = "analyzed"

\* C11: a rejected write of saveSuggestions is reported to its caller, so
\* the cron run never counts a target as analysed, with suggestions to save,
\* while the table holds no row of it.
C11_WriteFailureReported ==
    (CountedAnalyzed /\ cron.step.returned > 0) => cron.step.stored > 0

\* The answers that are no array, neither as they are nor between their
\* first '[' and last ']'.
Undecodable == {"object", "prose", "broken"}

\* C14: an analysis whose oracle answer cannot be decoded as the array fails:
\* it is counted as an error, stores nothing and is not marked analysed.
C14_UndecodableFails ==
    (cron.step.loop = "analyze" /\ cron.step.reply \in Undecodable)
        => cron.step.counted = "error" /\ ~cron.step.marked

\* The answers the decoder does throw on are counted as errors and the page
\* stays unanalysed.
ThrownIsCounted ==
    (cron.step.loop = "analyze" /\ cron.step.reply \in {"prose", "broken"})
        => cron.step.counted = "error" /\ ~cron.step.marked

ThrownIsCountedActed ==
    cron.step.loop = "analyze" /\ cron.step.reply = "broken" /\ cron.stats.errors > 0

\* C15: every iteration in which a fetch, an oracle or a store failed adds
\* exactly one to the error counter of the run.
C15_CountsEveryFailure == cron.stats.errors = cron.failed

\* The rest of it: a run that read its sitemap and its pages goes through
\* every queue and the link check and answers with its summary, whatever
\* failed on the way.
BatchRunsThrough ==
    cron.response = "ok" =>
        cron.pc = "idle" /\ cron.newUrls = <<>> /\ cron.backfill = <<>> /\ cron.toAnalyze = <<>>

BatchRunsThroughActed == cron.response = "ok" /\ cron.stats.errors > 1

\* C16: extractKeywordsExpanded is called at most once for a page over all
\* the runs.
C16_KeywordsOnce == \A u \in SiteUrls : kwCalls[u] <= 1

\* The same of the keyword-only version alone.
KeywordsOnceKeywordOnly == cron.version = "keyword" => C16_KeywordsOnce

(* ------------------------------------------------------------------ *)
(* The batch saveSuggestions is given                                 *)
(* ------------------------------------------------------------------ *)

\* The latest operation was a call of saveSuggestions with what the latest
\* analysis returned.
SavedRun == last.op = "save" /\ run.pipeline # "none"

\* The first entry of the batch with the source of entry i.
FirstOf(batch, i) ==
    batch[CHOOSE j \in 1 .. Len(batch) :
            /\ batch[j].sourceUrl = batch[i].sourceUrl
            /\ \A k \in 1 .. j - 1 : batch[k].sourceUrl # batch[i].sourceUrl]

\* The row carries what the entry holds.
Carries(row, entry) ==
    /\ row.source_title = entry.sourceTitle
    /\ row.suggested_anchor_text = entry.suggestedAnchorText
    /\ row.anchor_source = entry.anchorSource
    /\ row.context = entry.context
    /\ row.reason = entry.reason

\* C21: saveSuggestions never gives the store a batch with two rows of one
\* pair; when the store is available, each source of the batch has exactly
\* one row of the target, carrying the first entry of that source; an empty
\* batch writes nothing and is no error.
C21_DedupFirst ==
    SavedRun =>
        /\ last.result # "collision"
        /\ run.suggestions = <<>> <=> last.result = "empty"
        /\ last.result = "saved" =>
              \A i \in 1 .. Len(run.suggestions) :
                  LET hit == RowOf(suggestions, run.url, run.suggestions[i].sourceUrl)
                  IN  /\ Cardinality(hit) = 1
                      /\ \A id \in hit : Carries(suggestions[id], FirstOf(run.suggestions, i))

\* A batch with two different entries of one source was saved.
C21_Witness ==
    /\ SavedRun
    /\ last.result = "saved"
    /\ \E i, j \in 1 .. Len(run.suggestions) :
          /\ i < j
          /\ run.suggestions[i].sourceUrl = run.suggestions[j].sourceUrl
          /\ run.suggestions[i].context # run.suggestions[j].context

(* ------------------------------------------------------------------ *)
(* The denylist                                                       *)
(* ------------------------------------------------------------------ *)

C23_Idempotent ==
    [][(reindexed'.op = "repeat" /\ reindexed'.result # "insert failed")
       => \A pageUrl \in PopulatedPages :
              StoredFragments(pageUrl)' = StoredFragments(pageUrl)]_vars

\* A call that stored two fragments was repeated while the index held
\* fragments of another page.
C23_Witness ==
    /\ reindexed.op = "repeat"
    /\ reindexed.result = "inserted"
    /\ Len(reindexed.found) = 2
    /\ \E pageUrl \in PopulatedPages \ {reindexed.page_url} : StoredFragments(pageUrl) # <<>>

(* ------------------------------------------------------------------ *)
(* Equivalent spellings                                               *)
(* ------------------------------------------------------------------ *)

\* The two strings are URLs of one page: they parse, and differ in nothing
\* but their scheme, a leading www., a trailing slash or a query string.
SamePage(a, b) == Parses(a) /\ Parses(b) /\ a.path = b.path

C24_WitnessFallback ==
    /\ norm.asked
    /\ ~Parses(norm.a)
    /\ norm.a.query /\ norm.a.slash
    /\ ~norm.na.query /\ ~norm.na.slash

(* ------------------------------------------------------------------ *)
(* The review status                                                  *)
(* ------------------------------------------------------------------ *)

\* C25: every stored row has a status of VALID_STATUSES; a PATCH that is
\* answered 400 writes nothing, and one that is answered ok changes nothing
\* but the status of the row it names.
C25_ValidStatus ==
    /\ [](\A id \in DOMAIN suggestions : suggestions[id].status \in VALID_STATUSES)
    /\ [][(last'.op = "patch" /\ suggestions' # suggestions) =>
            /\ last'.result = "ok"
            /\ DOMAIN suggestions' = DOMAIN suggestions
            /\ \A id \in DOMAIN suggestions :
                  suggestions'[id] =
                      IF id = last'.id
                      THEN [suggestions[id] EXCEPT !.status = suggestions'[id].status]
                      ELSE suggestions[id]]_vars

\* A PATCH has dismissed a row that a pass had verified, and the row is
\* still verified.
C25_Witness ==
    /\ last.op = "patch" /\ last.result = "ok"
    /\ Stored(last.id)
    /\ suggestions[last.id].status = "dismissed"
    /\ suggestions[last.id].link_checked

\* A PATCH with a status outside the list was answered 400 while the row it
\* named was stored.
C25_Rejected == last.op = "patch" /\ last.result = "400" /\ Stored(last.id)

(* ------------------------------------------------------------------ *)
(* A review decision during a pass                                    *)
(* ------------------------------------------------------------------ *)

\* The step is the iteration of a pass on the row id.
ChecksRow(id) ==
    \E p \in PassIds :
        /\ lc[p].pc = "loop" /\ lc[p].pending # <<>>
        /\ Head(lc[p].pending).id = id
        /\ lc'[p].pending = Tail(lc[p].pending)

\* C26: the iteration of a pass deletes or marks a row only if the row is
\* pending when it writes.
C26_OnlyPending ==
    [][\A id \in DOMAIN suggestions :
          (ChecksRow(id) /\ suggestions' # suggestions) => suggestions[id].status = "pending"]_vars

\* The part of it that is about a deletion: a row a reviewer has accepted or
\* dismissed is not deleted.
DecisionKept ==
    [][\A id \in DOMAIN suggestions :
          suggestions[id].status # "pending" => id \in DOMAIN suggestions']_vars

(* ------------------------------------------------------------------ *)
(* analyzed_at                                                        *)
(* ------------------------------------------------------------------ *)

\* The page has a row with analyzed_at set.
Analyzed(table, url) == \E i \in 1 .. Len(table) : table[i].url = url /\ table[i].analyzed

\* The step is the analysis of the page at the head of the queue.
AnalysisStep == cron.pc = "analyze" /\ cron' # cron

\* C27: the cron route analyses a page only while its analyzed_at is null;
\* analyzed_at is set only by the analysis of that page, when analyzeUrl
\* and saveSuggestions returned; an analysis that threw leaves it null; and
\* once set it stays set.
C27_AnalyzedOnce ==
    [][/\ AnalysisStep => ~Analyzed(pages, Head(cron.toAnalyze).url)
       /\ \A u \in SiteUrls :
             (~Analyzed(pages, u) /\ Analyzed(pages', u))
             => /\ AnalysisStep
                /\ Head(cron.toAnalyze).url = u
                /\ cron'.step.counted = "analyzed"
       /\ (AnalysisStep /\ cron'.step.counted = "error")
             => ~Analyzed(pages', Head(cron.toAnalyze).url)
       /\ \A u \in SiteUrls : Analyzed(pages, u) => Analyzed(pages', u)]_vars

\* In a second run a page was analysed a second time and marked, while
\* another page was already marked and was left alone.
C27_Witness ==
    /\ cron.runs = 2
    /\ cron.version = "oracle"
    /\ cron.step.loop = "analyze" /\ cron.step.counted = "analyzed" /\ cron.step.marked
    /\ kwCalls[cron.step.url] = 2
    /\ \E u \in SiteUrls \ {cron.step.url} : Analyzed(pages, u) /\ kwCalls[u] = 1

(* ------------------------------------------------------------------ *)
(* Pages that wait for their analysis                                 *)
(* ------------------------------------------------------------------ *)

\* The page is a content page with content and without analyzed_at.
Eligible(url) ==
    /\ isContentPage(url)
    /\ \E i \in 1 .. Len(pages) :
          pages[i].url = url /\ pages[i].has_content /\ ~pages[i].analyzed

\* The latest iteration of the analysis loop passed the page to analyzeUrl.
Passed(url) == cron.step.loop = "analyze" /\ cron.step.url = url

\* C28: under a schedule that never ends, every content page with content
\* and without analyzed_at is passed to analyzeUrl in the end.
C28_EveryPageAnalyzed == \A u \in SiteUrls : Eligible(u) ~> Passed(u)

\* Over a table of a few rows every waiting page is passed to analyzeUrl.
FewPagesReached == Len(pages) <= MAX_INDEXING_PER_RUN + 1 => C28_EveryPageAnalyzed

\* The old page is outside the rows the query reads: the newer rows are
\* category pages, or a newer page whose analysis has not succeeded.
OldPageLeftOut ==
    /\ Eligible(TA)
    /\ cron.pc = "analyze"
    /\ \A i \in 1 .. Len(cron.toAnalyze) : cron.toAnalyze[i].url # TA

(* ------------------------------------------------------------------ *)
(* Sitemap URLs that wait for their row                               *)
(* ------------------------------------------------------------------ *)

\* The URL is a content page of the sitemap without a row in pages.
Unindexed(url) ==
    /\ isContentPage(url)
    /\ \E i \in 1 .. Len(Sitemap) : Sitemap[i] = url
    /\ PageAt(pages, url) = {}

\* C29: under a schedule that never ends, every content page of the sitemap
\* without a row in pages is scraped and inserted in the end.
C29_EveryUrlIndexed == \A u \in SiteUrls : Unindexed(u) ~> PageAt(pages, u) # {}

\* With one row without content a slot is left and the new URL is inserted.
SlotLeft ==
    Len(NullContentUrls(pages)) < MAX_INDEXING_PER_RUN
        => (\A u \in SiteUrls : Unindexed(u) ~> PageAt(pages, u) # {})

(* ------------------------------------------------------------------ *)
(* What one run takes                                                 *)
(* ------------------------------------------------------------------ *)

\* The rows without content and the content pages of the sitemap without a
\* row, counted.
BareCount(table) ==
    Cardinality({ i \in 1 .. Len(table) : ~table[i].has_content \/ table[i].content = <<>> })
NewCount(table) ==
    Cardinality({ u \in SiteUrls : isContentPage(u) /\ PageAt(table, u) = {} })

AtMost(n, cap) == IF n < cap THEN n ELSE cap

\* The steps of a run in their order.
Rank(pc) ==
    CASE pc = "idle" -> 0
      [] pc = "index" -> 1
      [] pc = "backfill" -> 2
      [] pc = "query" -> 3
      [] pc = "analyze" -> 4
      [] pc = "linkcheck" -> 5
      [] pc = "checking" -> 6

\* The scrapes, analyses and link checks a run has done and has yet to do
\* are within its budgets.
WithinBudgets ==
    /\ Len(cron.newUrls) + Len(cron.backfill) <= MAX_INDEXING_PER_RUN
    /\ cron.stats.newInserted + cron.stats.backfilled <= MAX_INDEXING_PER_RUN
    /\ cron.pc \in {"index", "backfill"}
         => cron.stats.newInserted + cron.stats.backfilled + cron.stats.errors
                + Len(cron.newUrls) + Len(cron.backfill) <= MAX_INDEXING_PER_RUN
    /\ Len(cron.toAnalyze) <= MAX_ANALYSIS_PER_RUN
    /\ cron.stats.analyzed + (IF cron.pc = "analyze" THEN Len(cron.toAnalyze) ELSE 0)
         <= MAX_ANALYSIS_PER_RUN
    /\ cron.stats.newInserted + cron.stats.backfilled + cron.stats.analyzed + cron.stats.errors
         <= MAX_INDEXING_PER_RUN + MAX_ANALYSIS_PER_RUN
    /\ cron.pc = "checking"
         => /\ lc[1].processed <= LinkCheckBatch
            /\ Len(lc[1].pending) <= lc[1].processed

\* A step of a run: the start shares the budget, rows without content
\* first; a step of a loop takes one entry of its queue and nothing else
\* scrapes, analyses or checks; the steps go forward.
RunStep ==
    /\ (cron.pc = "idle" /\ cron'.pc # "idle")
         => /\ Len(cron'.backfill) = AtMost(BareCount(pages), MAX_INDEXING_PER_RUN)
            /\ Len(cron'.newUrls) =
                 AtMost(NewCount(pages), MAX_INDEXING_PER_RUN - Len(cron'.backfill))
    /\ cron.pc # "idle" => (cron'.pc = "idle" \/ Rank(cron'.pc) >= Rank(cron.pc))
    /\ cron.pc = "index"
         => cron'.newUrls = Tail(cron.newUrls) /\ cron'.backfill = cron.backfill
    /\ cron.pc = "backfill"
         => cron'.backfill = Tail(cron.backfill) /\ cron'.newUrls = cron.newUrls
    /\ cron.pc = "analyze" => cron'.toAnalyze = Tail(cron.toAnalyze)
    /\ cron.pc \notin {"idle", "index", "backfill"}
         => cron'.newUrls = cron.newUrls /\ cron'.backfill = cron.backfill
    /\ cron.pc \notin {"query", "analyze"} \/ cron'.pc = "idle"
         => cron'.pc = "idle" \/ cron.pc = "idle" \/ cron'.toAnalyze = cron.toAnalyze
    /\ cron.pc \notin {"index", "backfill"}
         => { i \in 1 .. Len(pages) : pages[i].has_content }
              = { i \in 1 .. Len(pages') : pages'[i].has_content }
    /\ cron.pc # "analyze"
         => { i \in 1 .. Len(pages) : pages[i].analyzed }
              = { i \in 1 .. Len(pages') : pages'[i].analyzed }
    /\ (cron.pc = "checking" /\ lc'[1].pc = "loop")
         => lc'[1].pending = Tail(lc[1].pending)
    /\ cron.pc \notin {"linkcheck", "checking"} => lc' = lc

\* C30: in one cron run at most MAX_INDEXING_PER_RUN pages are scraped for
\* indexing, rows without content taking the slots before new URLs; at
\* most MAX_ANALYSIS_PER_RUN pages are analysed; at most 3 suggestions are
\* link-checked; indexing comes before analysis and analysis before the
\* link check.
C30_RunBudgets == []WithinBudgets /\ [][RunStep]_vars

\* A run that returned with every budget spent and more left of each kind:
\* a row without content, a page to analyse, a suggestion to check.
C30_Witness ==
    /\ cron.pc = "idle" /\ cron.response = "ok"
    /\ cron.stats.newInserted + cron.stats.backfilled = MAX_INDEXING_PER_RUN
    /\ BareCount(pages) + NewCount(pages) > 0
    /\ cron.stats.analyzed = MAX_ANALYSIS_PER_RUN
    /\ \E i \in 1 .. Len(pages) :
          pages[i].has_content /\ ~pages[i].analyzed /\ isContentPage(pages[i].url)
    /\ Cardinality({ id \in 1 .. Len(PendingRows) :
                       id \notin DOMAIN suggestions \/ suggestions[id].link_checked })
         = LinkCheckBatch
    /\ Unchecked(suggestions) # {}

\* A run that gave one slot to a row without content and one to a new URL.
C30_SharedBudget ==
    /\ cron.pc = "idle" /\ cron.response = "ok"
    /\ cron.stats.backfilled = 1 /\ cron.stats.newInserted = 1
    /\ NewCount(pages) > 0

====
